---------------------------- MODULE Spec2Model ----------------------------
(***************************************************************************)
(* Model of the platform-events crate: the topic matcher                   *)
(* (MemoryEventBus::topic_matches), the in-process bus (MemoryEventBus)    *)
(* and the distributed bus (redis_bus::RedisEventBus) of                   *)
(* crates/platform-events/src/bus.rs, and the relay bus (RedisEventBus)    *)
(* of crates/platform-events/src/redis.rs.                                 *)
(*                                                                         *)
(* Strings that hold topics and patterns are represented by the sequence   *)
(* of their dot-separated segments, which is what str::split('.') yields;  *)
(* the empty string is the one-element sequence <<"">>, as in Rust.        *)
(***************************************************************************)
EXTENDS Integers, Sequences, FiniteSets, TLC

(***************************************************************************)
(* Bounds of the model.                                                    *)
(***************************************************************************)
\* longest pattern / topic (in segments) the matcher is applied to
MaxLen == 4

\* segments patterns are built from
PatternSegments == {"a", "b", "*", "#"}

\* segments topics are built from
TopicSegments == {"a", "b"}

\* the empty string, split('.') of which is one empty segment
EmptyString == <<"">>

SeqsUpTo(S, n) == UNION {[1..k -> S] : k \in 1..n}

MatchPatterns == SeqsUpTo(PatternSegments, MaxLen) \cup {EmptyString}

MatchTopics == SeqsUpTo(TopicSegments, MaxLen) \cup {EmptyString}

\* API calls made on the bus in one run (publish, subscribe, register_handler,
\* unsubscribe, stats together)
MaxCalls == 3

\* the tasks that call the bus concurrently
Procs == {1, 2}

\* topics of the events published on the bus
BusTopics == {<<"a", "b">>, <<"a", "c">>}

\* pattern strings passed to subscribe
BusPatterns == {<<"a", "*">>, <<"a", "b">>, <<"a", "#">>}

\* what topics() returns for the handlers that get registered
HandlerTopics == {<< <<"a", "*">>, <<"a", "b">> >>, << <<"a", "c">> >>}

VARIABLES
    m_pattern,       \* matcher: the pattern argument
    m_topic,         \* matcher: the topic argument
    m_pc,            \* matcher: "input" before the call, "done" after
    m_result,        \* matcher: the value topic_matches returned
    subscribers,     \* MemoryEventBus.subscribers: pattern string -> channel
    channels,        \* the broadcast channels: per channel the values sent into it
    subscriptions,   \* the Subscription handles (receivers) created so far
    handlers,        \* MemoryEventBus.handlers: each handler by its topics()
    stats,           \* MemoryEventBus.stats
    tasks,           \* the handler invocations spawned so far
    pc,              \* where each calling task is in its current call
    op,              \* the call each task makes (or made last) and its arguments
    ret,             \* what the last completed call of each task returned
    subs_readers,    \* tasks holding a read guard on subscribers
    handlers_writer, \* the task holding the write guard on handlers (0: none)
    calls,           \* the calls so far: how many of each operation (and of
                     \* the messages other clients published), which
                     \* publishes had returned when each publish began, how
                     \* many had begun when each registration was made
    config,          \* redis_bus::RedisEventBus.config (use_streams)
    local_channels,  \* redis_bus::RedisEventBus.local_channels: pattern -> channel
    local_sent,      \* its broadcast channels: per channel the values sent into it
    receivers,       \* the Subscription handles a distributed bus made
    redis_handlers,  \* redis_bus::RedisEventBus.handlers
    invocations,     \* the handler invocations the listeners spawned
    events_published,     \* AtomicU64
    events_delivered,     \* AtomicU64
    active_subscriptions, \* AtomicU64
    running,         \* AtomicBool read by the listener tasks
    streams,         \* Redis: stream key -> entries and last id
    listeners,       \* the listener tasks: pattern subscribed, messages waiting
    commands,        \* Redis: the write commands of the bus the server has executed
    local_bus,       \* redis.rs RedisEventBus.local_bus: the values sent into it
    topic_handlers,  \* redis.rs RedisEventBus.handlers: topic string -> handlers
    listener_handle, \* redis.rs RedisEventBus.listener_handle (0: None)
    redis_stats      \* redis.rs RedisEventBus.stats

mvars == <<m_pattern, m_topic, m_pc, m_result>>

bvars == <<subscribers, channels, subscriptions, handlers, stats, tasks, pc, op,
           ret, subs_readers, handlers_writer, calls>>

\* the state of MemoryEventBus, without the calling tasks
lvars == <<subscribers, channels, subscriptions, handlers, stats, tasks,
           subs_readers, handlers_writer>>

dvars == <<config, local_channels, local_sent, receivers, redis_handlers,
           invocations, events_published, events_delivered,
           active_subscriptions, running, streams, listeners, commands>>

\* the state of redis.rs RedisEventBus that it does not share
rvars == <<local_bus, topic_handlers, listener_handle, redis_stats>>

\* the state that only redis_bus::RedisEventBus has
dvars_bus_only == <<config, local_channels, local_sent, redis_handlers,
                    events_published, events_delivered, active_subscriptions,
                    running, streams>>

vars == <<mvars, bvars, dvars, rvars>>

(***************************************************************************)
(* Topic matcher, bus.rs 150-197.                                          *)
(***************************************************************************)
\* pattern.split('.').collect(): a string is held as its segments
split(s) == s

\* parts.join("."), as the string it produces: joining no parts gives "",
\* which splits into one empty segment
join(parts) == IF parts = <<>> THEN EmptyString ELSE parts

\* parts[from..] with from 0-based, as a Rust slice
slice_from(parts, from) == SubSeq(parts, from + 1, Len(parts))

\* faulty variant of trailing_hash: the left-over `#` is not stepped over
trailing_hash_kept(pattern_parts, p_idx) == p_idx

\* bus.rs 191-194: a `#` left over when the loop ends is stepped over (once)
trailing_hash(pattern_parts, p_idx) ==
    IF p_idx < Len(pattern_parts) /\ pattern_parts[p_idx + 1] = "#"
    THEN p_idx + 1
    ELSE p_idx

\* faulty variant of exhausted: only the pattern side is compared
exhausted_pattern_only(pattern_parts, topic_parts, p_idx, t_idx) ==
    p_idx = Len(pattern_parts)

\* bus.rs 196: both sides must be used up
exhausted(pattern_parts, topic_parts, p_idx, t_idx) ==
    p_idx = Len(pattern_parts) /\ t_idx = Len(topic_parts)

\* bus.rs 181-187: a literal segment must equal the topic segment
literal_equal(segment, topic_segment) == segment = topic_segment

RECURSIVE topic_matches(_, _)
RECURSIVE match_loop(_, _, _, _)

\* bus.rs 157-196: the while loop over both index cursors (0-based as in the
\* code), then the trailing-# step and the final comparison
match_loop(pattern_parts, topic_parts, p_idx, t_idx) ==
    IF p_idx < Len(pattern_parts) /\ t_idx < Len(topic_parts)
    THEN CASE pattern_parts[p_idx + 1] = "*" ->
                match_loop(pattern_parts, topic_parts, p_idx + 1, t_idx + 1)
           [] pattern_parts[p_idx + 1] = "#" ->
                IF p_idx = Len(pattern_parts) - 1
                THEN TRUE
                ELSE \E i \in t_idx..Len(topic_parts) :
                        topic_matches(join(slice_from(pattern_parts, p_idx + 1)),
                                      join(slice_from(topic_parts, i)))
           [] OTHER ->
                IF ~literal_equal(pattern_parts[p_idx + 1], topic_parts[t_idx + 1])
                THEN FALSE
                ELSE match_loop(pattern_parts, topic_parts, p_idx + 1, t_idx + 1)
    ELSE exhausted(pattern_parts, topic_parts,
                   trailing_hash(pattern_parts, p_idx), t_idx)

\* bus.rs 150-197
topic_matches(pattern, topic) ==
    match_loop(split(pattern), split(topic), 0, 0)

(***************************************************************************)
(* Applying the matcher: the inputs are drawn in the initial state, the one     *)
(* action applies the function.                                            *)
(***************************************************************************)
MatchInit ==
    /\ m_pattern \in MatchPatterns
    /\ m_topic \in MatchTopics
    /\ m_pc = "input"
    /\ m_result = FALSE

MatchCall ==
    /\ m_pc = "input"
    /\ m_result' = topic_matches(m_pattern, m_topic)
    /\ m_pc' = "done"
    /\ UNCHANGED <<m_pattern, m_topic, bvars, dvars, rvars>>

(***************************************************************************)
(* MemoryEventBus, bus.rs 114-301.                                         *)
(***************************************************************************)
\* what a call returned: nothing yet, Ok(()), Err(error), Ok(subscription)
\* and the statistics, each a record of its own shape
Pending == [kind |-> "none"]

Ok == [kind |-> "Ok"]

Err(error) == [kind |-> "Err", error |-> error]

OkSubscription(id) == [kind |-> "Ok", id |-> id]

StatsValue(s) == [kind |-> "Stats", stats |-> s]

\* EventBusStats::default(), bus.rs 98-108 and 144
default_stats ==
    [events_published |-> 0, events_delivered |-> 0,
     active_subscriptions |-> 0, registered_handlers |-> 0]

\* MemoryEventBus.channel_capacity, the capacity every channel is created with
channel_capacity == 1

TotalCalls ==
    calls.publish + calls.subscribe + calls.register_handler
        + calls.unsubscribe + calls.stats + calls.replay_events
        + calls.shutdown + calls.start_listener + calls.stop_listener
        + calls.foreign

\* receivers of channel c that have not been dropped
receiver_count(c) ==
    Cardinality({s \in DOMAIN subscriptions :
                    subscriptions[s].chan = c /\ subscriptions[s].alive})

\* faulty variant of send: the value is put in front of the values stored
send_in_front(sent, c, event) ==
    IF receiver_count(c) = 0 THEN sent ELSE <<event>> \o sent

\* sender.send(event), bus.rs 221: the value is stored unless the channel has
\* no receiver, in which case send returns an error the bus ignores
send(sent, c, event) ==
    IF receiver_count(c) = 0 THEN sent ELSE Append(sent, event)

\* faulty variant of subscriber_matches: every registry entry gets the event
subscriber_matches_any(pattern, topic) == TRUE

\* bus.rs 220: the test that decides whether a registry entry gets the event
subscriber_matches(pattern, topic) == topic_matches(pattern, topic)

\* bus.rs 219-223: the loop over the registry
notify_subscribers(event) ==
    [c \in DOMAIN channels |->
        IF \E pattern \in DOMAIN subscribers :
              subscribers[pattern] = c /\ subscriber_matches(pattern, event.topic)
        THEN send(channels[c], c, event)
        ELSE channels[c]]

RECURSIVE handler_spawns_no_break(_, _, _)
\* faulty variant of handler_spawns: the loop goes on after it has spawned
handler_spawns_no_break(handler_topics, k, topic) ==
    IF k > Len(handler_topics)
    THEN 0
    ELSE (IF topic_matches(handler_topics[k], topic) THEN 1 ELSE 0)
            + handler_spawns_no_break(handler_topics, k + 1, topic)

RECURSIVE handler_spawns(_, _, _)
\* bus.rs 228-239: the inner loop over handler.topics(), from its k-th topic
\* on: the number of invocations it spawns; it breaks after the first
handler_spawns(handler_topics, k, topic) ==
    IF k > Len(handler_topics)
    THEN 0
    ELSE IF topic_matches(handler_topics[k], topic)
    THEN 1
    ELSE handler_spawns(handler_topics, k + 1, topic)

RECURSIVE spawn_n(_, _, _)
\* n invocations of registry entry h for the event, appended to the tasks
spawn_n(ts, n, task) ==
    IF n = 0 THEN ts ELSE spawn_n(Append(ts, task), n - 1, task)

RECURSIVE notify_handlers(_, _, _)
\* bus.rs 227-240: the loop over the handler list, from entry h on
notify_handlers(ts, h, event) ==
    IF h > Len(handlers)
    THEN ts
    ELSE notify_handlers(
            spawn_n(ts, handler_spawns(handlers[h], 1, event.topic),
                    [handler |-> h, event |-> event, state |-> "running"]),
            h + 1, event)

\* faulty variant of publish_result: the error of a send into a channel without
\* receivers is propagated (sender.send(..)?)
publish_result_send_error(event) ==
    IF \E pattern \in DOMAIN subscribers :
          /\ subscriber_matches(pattern, event.topic)
          /\ receiver_count(subscribers[pattern]) = 0
    THEN Err("PublishError")
    ELSE Ok

\* what publish returns, bus.rs 242: the result of send is dropped (let _ =),
\* nothing in the body can fail
publish_result(event) == Ok

\* faulty variant of count_published: the increment is lost
count_published_lost(n) == n

\* bus.rs 214: stats.events_published += 1
count_published(n) == n + 1

BusInit ==
    /\ subscribers = <<>>
    /\ channels = <<>>
    /\ subscriptions = <<>>
    /\ handlers = <<>>
    /\ stats = default_stats
    /\ tasks = <<>>
    /\ pc = [p \in Procs |-> "idle"]
    /\ op = [p \in Procs |-> [name |-> "none"]]
    /\ ret = [p \in Procs |-> Pending]
    /\ subs_readers = {}
    /\ handlers_writer = 0
    /\ calls = [publish |-> 0, subscribe |-> 0, register_handler |-> 0,
                unsubscribe |-> 0, stats |-> 0,
                publish_done |-> 0, subscribe_done |-> 0,
                replay_events |-> 0, shutdown |-> 0,
                start_listener |-> 0, stop_listener |-> 0, foreign |-> 0,
                returned |-> {}, before |-> <<>>,
                sub_born |-> <<>>, handler_born |-> <<>>]

\* a task may begin a call
CanCall(p) == pc[p] = "idle" /\ TotalCalls < MaxCalls

\* publish, bus.rs 208-215: the call begins and, under the stats write lock,
\* counts the event
PublishStats(p, topic) ==
    /\ CanCall(p)
    /\ stats' = [stats EXCEPT !.events_published = count_published(@)]
    /\ op' = [op EXCEPT ![p] =
                [name |-> "publish",
                 event |-> [id |-> calls.publish + 1, topic |-> topic]]]
    /\ calls' = [calls EXCEPT !.publish = @ + 1,
                              !.before = Append(@, calls.returned)]
    /\ pc' = [pc EXCEPT ![p] = "pub_subscribers"]
    /\ ret' = [ret EXCEPT ![p] = Pending]
    /\ UNCHANGED <<mvars, rvars, dvars, subscribers, channels, subscriptions, handlers, tasks,
                   subs_readers, handlers_writer>>

\* publish, bus.rs 217-223: takes the read guard on subscribers (kept until the
\* call returns) and sends to every matching channel
PublishSubscribers(p) ==
    /\ pc[p] = "pub_subscribers"
    /\ subs_readers' = subs_readers \cup {p}
    /\ channels' = notify_subscribers(op[p].event)
    /\ pc' = [pc EXCEPT ![p] = "pub_handlers"]
    /\ UNCHANGED <<mvars, rvars, dvars, subscribers, subscriptions, handlers, stats, tasks, op, ret,
                   handlers_writer, calls>>

\* publish, bus.rs 225-242: takes the read guard on handlers, spawns the
\* invocations without awaiting them, returns and drops both guards
PublishHandlers(p) ==
    /\ pc[p] = "pub_handlers"
    /\ handlers_writer = 0
    /\ tasks' = notify_handlers(tasks, 1, op[p].event)
    /\ subs_readers' = subs_readers \ {p}
    /\ pc' = [pc EXCEPT ![p] = "idle"]
    /\ ret' = [ret EXCEPT ![p] = publish_result(op[p].event)]
    /\ calls' = [calls EXCEPT !.publish_done = @ + 1,
                              !.returned = @ \cup {op[p].event.id}]
    /\ UNCHANGED <<mvars, rvars, dvars, subscribers, channels, subscriptions, handlers, stats,
                   op, handlers_writer>>

\* faulty variant of registry_after_subscribe: a channel is created and inserted for
\* every call, replacing the entry of a pattern string that had one
registry_always_inserts(topic) ==
    [subscribers |-> [t \in DOMAIN subscribers \cup {topic} |->
                        IF t = topic THEN Len(channels) + 1 ELSE subscribers[t]],
     channels |-> Append(channels, <<>>)]

\* bus.rs 251-257: the registry and the channels after subscribe(topic); a
\* channel is created and inserted only when the pattern string has none
registry_after_subscribe(topic) ==
    IF topic \in DOMAIN subscribers
    THEN [subscribers |-> subscribers, channels |-> channels]
    ELSE [subscribers |-> [t \in DOMAIN subscribers \cup {topic} |->
                              IF t = topic THEN Len(channels) + 1
                                           ELSE subscribers[t]],
          channels |-> Append(channels, <<>>)]

\* faulty variant of receiver_start: the new receiver starts at the first value
receiver_start_at_first(sent) == 0

\* sender.subscribe(), bus.rs 252 and 255: the new receiver starts at the
\* channel's tail and sees only the values sent after it was made
receiver_start(sent) == Len(sent)

\* subscribe, bus.rs 245-258: under the write guard on subscribers, a receiver
\* on the channel of this pattern string, which is created if there is none.
\* A receiver made by sender.subscribe() starts at the channel's tail.
SubscribeChannel(p, topic) ==
    /\ CanCall(p)
    /\ subs_readers = {}
    /\ subscribers' = registry_after_subscribe(topic).subscribers
    /\ channels' = registry_after_subscribe(topic).channels
    /\ subscriptions' = Append(subscriptions,
            [id |-> Len(subscriptions) + 1,
             topic |-> topic,
             chan |-> subscribers'[topic],
             next |-> receiver_start(channels'[subscribers'[topic]]),
             alive |-> TRUE,
             last |-> [kind |-> "none"]])
    /\ op' = [op EXCEPT ![p] =
                [name |-> "subscribe", topic |-> topic,
                 id |-> Len(subscriptions) + 1]]
    /\ calls' = [calls EXCEPT !.subscribe = @ + 1,
                              !.sub_born = Append(@, calls.publish)]
    /\ pc' = [pc EXCEPT ![p] = "sub_stats"]
    /\ ret' = [ret EXCEPT ![p] = Pending]
    /\ UNCHANGED <<mvars, rvars, dvars, handlers, stats, tasks, subs_readers, handlers_writer>>

\* subscribe, bus.rs 260-270: counts the subscription and returns the handle
SubscribeStats(p) ==
    /\ pc[p] = "sub_stats"
    /\ stats' = [stats EXCEPT !.active_subscriptions = @ + 1]
    /\ pc' = [pc EXCEPT ![p] = "idle"]
    /\ ret' = [ret EXCEPT ![p] = OkSubscription(op[p].id)]
    /\ calls' = [calls EXCEPT !.subscribe_done = @ + 1]
    /\ UNCHANGED <<mvars, rvars, dvars, subscribers, channels, subscriptions, handlers, tasks,
                   op, subs_readers, handlers_writer>>

\* register_handler, bus.rs 273-275: takes the write guard on handlers and
\* pushes the handler
RegisterPush(p, handler_topics) ==
    /\ CanCall(p)
    /\ handlers_writer = 0
    /\ handlers' = Append(handlers, handler_topics)
    /\ handlers_writer' = p
    /\ op' = [op EXCEPT ![p] =
                [name |-> "register_handler", topics |-> handler_topics]]
    /\ calls' = [calls EXCEPT !.register_handler = @ + 1,
                              !.handler_born = Append(@, calls.publish)]
    /\ pc' = [pc EXCEPT ![p] = "reg_stats"]
    /\ ret' = [ret EXCEPT ![p] = Pending]
    /\ UNCHANGED <<mvars, rvars, dvars, subscribers, channels, subscriptions, stats, tasks,
                   subs_readers>>

\* faulty variant of RegisterStats: register_handler also waits for the
\* subscriber registry to have no reader before it returns
RegisterStatsAfterReaders(p) ==
    /\ pc[p] = "reg_stats"
    /\ subs_readers = {}
    /\ stats' = [stats EXCEPT !.registered_handlers = @ + 1]
    /\ handlers_writer' = 0
    /\ pc' = [pc EXCEPT ![p] = "idle"]
    /\ ret' = [ret EXCEPT ![p] = Ok]
    /\ UNCHANGED <<mvars, rvars, dvars, subscribers, channels, subscriptions, handlers, tasks, op,
                   subs_readers, calls>>

\* register_handler, bus.rs 277-283: counts the handler, returns and drops the
\* write guard
RegisterStats(p) ==
    /\ pc[p] = "reg_stats"
    /\ stats' = [stats EXCEPT !.registered_handlers = @ + 1]
    /\ handlers_writer' = 0
    /\ pc' = [pc EXCEPT ![p] = "idle"]
    /\ ret' = [ret EXCEPT ![p] = Ok]
    /\ UNCHANGED <<mvars, rvars, dvars, subscribers, channels, subscriptions, handlers, tasks, op,
                   subs_readers, calls>>

\* faulty variant of gauge_after_unsubscribe: the decrement is not guarded
gauge_unguarded(active, subscription_id) == active - 1

\* bus.rs 290-292: the gauge after unsubscribe; the id is not looked at
gauge_after_unsubscribe(active, subscription_id) ==
    IF active > 0 THEN active - 1 ELSE active

\* faulty variant of Unsubscribe: the receiver with that id is closed
UnsubscribeCloses(p, subscription_id) ==
    /\ CanCall(p)
    /\ stats' = [stats EXCEPT !.active_subscriptions =
                    gauge_after_unsubscribe(@, subscription_id)]
    /\ subscriptions' = [s \in DOMAIN subscriptions |->
                            IF s = subscription_id
                            THEN [subscriptions[s] EXCEPT !.alive = FALSE]
                            ELSE subscriptions[s]]
    /\ op' = [op EXCEPT ![p] = [name |-> "unsubscribe", id |-> subscription_id,
                                 seq |-> calls.unsubscribe + 1,
                                 published |-> calls.publish]]
    /\ calls' = [calls EXCEPT !.unsubscribe = @ + 1]
    /\ ret' = [ret EXCEPT ![p] = Ok]
    /\ UNCHANGED <<mvars, rvars, dvars, subscribers, channels, handlers, tasks, pc,
                   subs_readers, handlers_writer>>

\* unsubscribe, bus.rs 286-296
Unsubscribe(p, subscription_id) ==
    /\ CanCall(p)
    /\ stats' = [stats EXCEPT !.active_subscriptions =
                    gauge_after_unsubscribe(@, subscription_id)]
    /\ op' = [op EXCEPT ![p] = [name |-> "unsubscribe", id |-> subscription_id,
                                 seq |-> calls.unsubscribe + 1,
                                 published |-> calls.publish]]
    /\ calls' = [calls EXCEPT !.unsubscribe = @ + 1]
    /\ ret' = [ret EXCEPT ![p] = Ok]
    /\ UNCHANGED <<mvars, rvars, dvars, subscribers, channels, subscriptions, handlers, tasks, pc,
                   subs_readers, handlers_writer>>

\* stats, bus.rs 298-300: a clone of the statistics
Stats(p) ==
    /\ CanCall(p)
    /\ op' = [op EXCEPT ![p] = [name |-> "stats"]]
    /\ calls' = [calls EXCEPT !.stats = @ + 1]
    /\ ret' = [ret EXCEPT ![p] = StatsValue(stats)]
    /\ UNCHANGED <<mvars, rvars, dvars, subscribers, channels, subscriptions, handlers, stats, tasks,
                   pc, subs_readers, handlers_writer>>

\* the Subscription has been returned to its caller
Returned(s) ==
    \A p \in Procs : ~(pc[p] = "sub_stats" /\ op[p].id = s)

\* position of the oldest value channel c still holds
oldest(c) ==
    IF Len(channels[c]) > channel_capacity
    THEN Len(channels[c]) - channel_capacity
    ELSE 0

\* Subscription::recv, bus.rs 56: map_err turns every error of the receiver,
\* RecvError::Lagged as well as RecvError::Closed, into ChannelClosed
recv_lagged == Err("ChannelClosed")

\* Subscription::recv, bus.rs 52-57, when a value is waiting: the receiver
\* returns the next value, or, when values it had not read were overwritten,
\* an error (which recv maps to ChannelClosed) and skips to the oldest value
Recv(s) ==
    LET sub == subscriptions[s]
        sent == channels[sub.chan]
    IN  /\ sub.alive
        /\ Returned(s)
        /\ sub.next < Len(sent)
        /\ subscriptions' = [subscriptions EXCEPT ![s] =
                IF sub.next < oldest(sub.chan)
                THEN [sub EXCEPT !.next = oldest(sub.chan),
                                 !.last = recv_lagged]
                ELSE [sub EXCEPT !.next = sub.next + 1,
                                 !.last = [kind |-> "Ok",
                                           value |-> sent[sub.next + 1]]]]
        /\ UNCHANGED <<mvars, rvars, dvars, subscribers, channels, handlers, stats, tasks, pc, op,
                       ret, subs_readers, handlers_writer, calls>>

\* the caller drops the Subscription, and with it the receiver
Drop(s) ==
    /\ subscriptions[s].alive
    /\ Returned(s)
    /\ subscriptions' = [subscriptions EXCEPT ![s].alive = FALSE]
    /\ UNCHANGED <<mvars, rvars, dvars, subscribers, channels, handlers, stats, tasks, pc, op, ret,
                   subs_readers, handlers_writer, calls>>

\* a spawned invocation ends: handler.handle(event) returned Ok, bus.rs 232-236
HandlerOk(i) ==
    /\ tasks[i].state = "running"
    /\ tasks' = [tasks EXCEPT ![i].state = "ok"]
    /\ UNCHANGED <<mvars, rvars, dvars, subscribers, channels, subscriptions, handlers, stats, pc, op,
                   ret, subs_readers, handlers_writer, calls>>

\* faulty variant of HandlerErr: the failed invocation is scheduled again
HandlerErrRetried(i) ==
    /\ tasks[i].state = "running"
    /\ tasks' = Append([tasks EXCEPT ![i].state = "err"],
                       [tasks[i] EXCEPT !.state = "running"])
    /\ UNCHANGED <<mvars, rvars, dvars, subscribers, channels, subscriptions, handlers, stats, pc, op,
                   ret, subs_readers, handlers_writer, calls>>

\* a spawned invocation ends: handler.handle(event) returned Err, which is
\* printed, bus.rs 233-235
HandlerErr(i) ==
    /\ tasks[i].state = "running"
    /\ tasks' = [tasks EXCEPT ![i].state = "err"]
    /\ UNCHANGED <<mvars, rvars, dvars, subscribers, channels, subscriptions, handlers, stats, pc, op,
                   ret, subs_readers, handlers_writer, calls>>

(***************************************************************************)
(* redis_bus::RedisEventBus, bus.rs 308-718: strings, keys and the Redis   *)
(* server's part.                                                          *)
(***************************************************************************)
\* width of the atomic counters in the model: the AtomicU64 of the source
\* wraps at 2^64, the model's at 2^AtomicBits
AtomicBits == 3

\* the tasks that call the distributed bus: its calls are made one after
\* another, while its listeners and Redis run beside them
DistProcs == {1}

\* DistPatterns, DistHandlerTopics: the patterns callers subscribe with and
\* the topics() of the handlers they register
DistPatterns == {<<"a", "*">>, <<"a", "b">>}

DistHandlerTopics == {<< <<"a", "*">>, <<"a", "b">> >>, << <<"a", "c">> >>}

\* a string held as segments, as its characters with sep between the segments
RECURSIVE joined(_, _)
joined(parts, sep) ==
    IF Len(parts) <= 1
    THEN parts
    ELSE <<Head(parts), sep>> \o joined(Tail(parts), sep)

\* str.replace(from, to) on characters: every from becomes the characters to
RECURSIVE replace(_, _, _)
replace(str, from, to) ==
    IF str = <<>>
    THEN <<>>
    ELSE (IF Head(str) = from THEN to ELSE <<Head(str)>>)
            \o replace(Tail(str), from, to)

\* stream_key, bus.rs 441-443; the prefix and the word are one character each
stream_key(topic) ==
    <<"platform_events", ":", "stream", ":">> \o joined(split(topic), ":")

\* channel_key, bus.rs 446-448
channel_key(topic) ==
    <<"platform_events", ":", "pubsub", ":">> \o joined(split(topic), ":")

\* start_subscription_listener, bus.rs 508-510: the pattern given to PSUBSCRIBE
redis_pattern(topic) ==
    replace(replace(channel_key(topic), "*", <<"[", "^", ":", "]", "*">>),
            "#", <<"*">>)

\* Redis glob matching of a channel name against a PSUBSCRIBE pattern, for
\* the characters the patterns above contain: `*` takes any characters,
\* `[...]` one character in (or with `^` not in) the set, any other character
\* itself
RECURSIVE stringmatch(_, _)
stringmatch(pattern, string) ==
    IF pattern = <<>>
    THEN string = <<>>
    ELSE IF Head(pattern) = "*"
    THEN \E k \in 0..Len(string) :
            stringmatch(Tail(pattern), SubSeq(string, k + 1, Len(string)))
    ELSE IF Head(pattern) = "["
    THEN LET close == CHOOSE i \in 2..Len(pattern) :
                        /\ pattern[i] = "]"
                        /\ \A j \in 2..(i - 1) : pattern[j] # "]"
             negate == pattern[2] = "^"
             members == {pattern[j] : j \in (IF negate THEN 3 ELSE 2)..(close - 1)}
         IN  /\ string # <<>>
             /\ (Head(string) \in members) # negate
             /\ stringmatch(SubSeq(pattern, close + 1, Len(pattern)), Tail(string))
    ELSE /\ string # <<>>
         /\ Head(string) = Head(pattern)
         /\ stringmatch(Tail(pattern), Tail(string))

\* serde_json::to_string(&event), bus.rs 457 and 485: the JSON text of an event
to_string(event) == [kind |-> "Event", id |-> event.id, topic |-> event.topic]

\* a text that is no event
text(value) == [kind |-> "text", value |-> value]

\* serde_json::from_str::<Event>(..), bus.rs 537 and 620
from_str(data) ==
    IF data.kind = "Event"
    THEN [ok |-> TRUE, event |-> [id |-> data.id, topic |-> data.topic]]
    ELSE [ok |-> FALSE]

\* AtomicU64::fetch_add and fetch_sub: the new value, wrapping
fetch_add(value, n) == (value + n) % (2 ^ AtomicBits)

fetch_sub(value, n) == (value - n + 2 ^ AtomicBits) % (2 ^ AtomicBits)

\* Redis: a stream that does not exist yet
empty_stream == [entries |-> <<>>, last_id |-> 0]

stream_of(key) == IF key \in DOMAIN streams THEN streams[key] ELSE empty_stream

\* RedisEventBusConfig.stream_max_len, bus.rs 348, as small as the model's
\* streams
stream_max_len == 2

\* faulty variant of xadd: the entry is appended twice
xadd_twice(stream, fields, evicted) ==
    LET appended == stream.entries \o
                        <<[id |-> stream.last_id + 1, fields |-> fields],
                          [id |-> stream.last_id + 2, fields |-> fields]>>
    IN  [entries |-> SubSeq(appended, evicted + 1, Len(appended)),
         last_id |-> stream.last_id + 2]

\* Redis XADD key MAXLEN ~ n * fields, bus.rs 463-475: the entry gets the next
\* id and is appended, then the server may evict the `evicted` oldest entries,
\* never leaving fewer than n
xadd(stream, fields, evicted) ==
    LET appended == Append(stream.entries,
                           [id |-> stream.last_id + 1, fields |-> fields])
    IN  [entries |-> SubSeq(appended, evicted + 1, Len(appended)),
         last_id |-> stream.last_id + 1]

\* the numbers of entries XADD may evict
may_evict(stream) ==
    0..(IF Len(stream.entries) + 1 > stream_max_len
        THEN Len(stream.entries) + 1 - stream_max_len ELSE 0)

\* Redis XREAD COUNT count STREAMS key since, bus.rs 600-605: the entries with
\* an id above since, oldest first, at most count of them
xread_entries(key, since, count) ==
    LET later == SelectSeq(stream_of(key).entries, LAMBDA e : e.id > since)
    IN  SubSeq(later, 1, IF Len(later) < count THEN Len(later) ELSE count)

(***************************************************************************)
(* redis_bus::RedisEventBus, bus.rs 380-718: the bus and its listeners.    *)
(***************************************************************************)
\* RedisEventBus::new, bus.rs 413-433, with either setting of use_streams
RedisInit ==
    /\ config \in {[use_streams |-> TRUE], [use_streams |-> FALSE]}
    /\ local_channels = <<>>
    /\ local_sent = <<>>
    /\ receivers = <<>>
    /\ redis_handlers = <<>>
    /\ invocations = <<>>
    /\ events_published = 0
    /\ events_delivered = 0
    /\ active_subscriptions = 0
    /\ running = TRUE
    /\ streams = <<>>
    /\ listeners = <<>>
    /\ commands = <<>>

\* receivers of local channel c that have not been dropped
local_receiver_count(c) ==
    Cardinality({s \in DOMAIN receivers :
                    receivers[s].chan = c /\ receivers[s].alive})

\* sender.send(event), bus.rs 546: stored unless the channel has no receiver
local_send(sent, c, event) ==
    IF local_receiver_count(c) = 0 THEN sent ELSE Append(sent, event)

\* bus.rs 543-548: the listener's loop over all of local_channels
notify_local_channels(event) ==
    [c \in DOMAIN local_sent |->
        IF \E pattern \in DOMAIN local_channels :
              local_channels[pattern] = c /\ topic_matches(pattern, event.topic)
        THEN local_send(local_sent[c], c, event)
        ELSE local_sent[c]]

RECURSIVE notify_redis_handlers(_, _, _)
\* bus.rs 551-565: the listener's loop over the handler list, from entry h on;
\* the inner loop breaks after the first topic that matches
notify_redis_handlers(ts, h, event) ==
    IF h > Len(redis_handlers)
    THEN ts
    ELSE notify_redis_handlers(
            spawn_n(ts, handler_spawns(redis_handlers[h].topics, 1, event.topic),
                    [handler |-> h, event |-> event]),
            h + 1, event)

\* Redis PUBLISH channel payload: every open connection whose PSUBSCRIBE
\* pattern matches the channel gets the message
pubsub_deliver(channel, payload) ==
    [l \in DOMAIN listeners |->
        IF listeners[l].at = "await" /\ stringmatch(listeners[l].pattern, channel)
        THEN [listeners[l] EXCEPT !.inbox = Append(@, payload)]
        ELSE listeners[l]]

\* faulty variant of loop_test: the flag is not looked at
loop_test_ignored(flag) == "await"

\* bus.rs 526: `while running.load(..)`, the test before every iteration of
\* the listener's loop: the task waits for the next message, or has ended
loop_test(flag) == IF flag THEN "await" ELSE "stopped"

\* faulty variant of skip_message: the error ends the task
skip_message_fatal(flag) == "stopped"

\* bus.rs 534 and 539: `continue` on a payload that cannot be read or is no
\* event: the iteration ends there and the loop goes on with its test
skip_message(flag) == loop_test(flag)

\* faulty variant of count_delivered: the listener counts the event
count_delivered_added(n) == fetch_add(n, 1)

\* bus.rs 520: the listener takes a reference to events_delivered before the
\* task is spawned and the task never uses it: the counter after an event
\* was handed to the local channels and handlers
count_delivered(n) == n

\* faulty variant of with_listener: the task waits for a message before it
\* tests the flag
with_listener_awaiting(topic) ==
    Append(listeners,
           [pattern |-> redis_pattern(topic), inbox |-> <<>>, handled |-> <<>>,
            at |-> "await"])

\* start_subscription_listener, bus.rs 498-574, when it succeeds: one more
\* connection, subscribed to the converted pattern, and one more listener
\* task, which tests the running flag (526) and waits for a message
with_listener(topic) ==
    Append(listeners,
           [pattern |-> redis_pattern(topic), inbox |-> <<>>, handled |-> <<>>,
            at |-> loop_test(running)])

\* what start_subscription_listener can return: Ok, or ConnectionError when
\* the connection cannot be made (499-505), or SubscribeError when PSUBSCRIBE
\* fails (512-515)
ListenerOutcomes == {"Ok", "ConnectionError", "SubscribeError"}

\* faulty variant of write_error: the failure is dropped
write_error_swallowed == Ok

\* bus.rs 477 and 492: map_err makes the error of a failed XADD or PUBLISH an
\* EventBusError::PublishError, which `?` returns to the caller of publish
write_error == Err("PublishError")

\* publish, bus.rs 646, publish_to_stream 451-480: the call begins; with
\* use_streams the event is added to its topic's stream, and a failure of the
\* command is returned as PublishError
RedisPublishStream(p, topic, ok) ==
    LET event == [id |-> calls.publish + 1, topic |-> topic]
        key == stream_key(topic)
    IN  /\ CanCall(p)
        /\ op' = [op EXCEPT ![p] = [name |-> "publish", event |-> event]]
        /\ calls' = [calls EXCEPT !.publish = @ + 1,
                                  !.before = Append(@, calls.returned)]
        /\ IF ~config.use_streams
           THEN /\ ok
                /\ pc' = [pc EXCEPT ![p] = "pub_pubsub"]
                /\ ret' = [ret EXCEPT ![p] = Pending]
                /\ UNCHANGED <<streams, commands>>
           ELSE IF ok
           THEN /\ \E evicted \in may_evict(stream_of(key)) :
                        streams' = [k \in DOMAIN streams \cup {key} |->
                            IF k = key
                            THEN xadd(stream_of(key),
                                      <<text("event"), to_string(event),
                                        text("topic"), text(topic),
                                        text("timestamp"), text("rfc3339")>>,
                                      evicted)
                            ELSE streams[k]]
                /\ commands' = Append(commands,
                        [cmd |-> "XADD", key |-> key, payload |-> to_string(event)])
                /\ pc' = [pc EXCEPT ![p] = "pub_pubsub"]
                /\ ret' = [ret EXCEPT ![p] = Pending]
           ELSE /\ pc' = [pc EXCEPT ![p] = "idle"]
                /\ ret' = [ret EXCEPT ![p] = write_error]
                /\ UNCHANGED <<streams, commands>>
        /\ UNCHANGED <<mvars, rvars, lvars, config, local_channels, local_sent,
                       receivers, redis_handlers, invocations, events_published,
                       events_delivered, active_subscriptions, running, listeners>>

\* publish, bus.rs 647, publish_to_pubsub 483-495: the event is published on
\* its topic's channel, and a failure of the command is returned as
\* PublishError
RedisPublishPubsub(p, ok) ==
    LET event == op[p].event
        channel == channel_key(event.topic)
    IN  /\ pc[p] = "pub_pubsub"
        /\ IF ok
           THEN /\ listeners' = pubsub_deliver(channel, to_string(event))
                /\ commands' = Append(commands,
                        [cmd |-> "PUBLISH", key |-> channel,
                         payload |-> to_string(event)])
                /\ pc' = [pc EXCEPT ![p] = "pub_count"]
                /\ ret' = ret
           ELSE /\ pc' = [pc EXCEPT ![p] = "idle"]
                /\ ret' = [ret EXCEPT ![p] = write_error]
                /\ UNCHANGED <<listeners, commands>>
        /\ UNCHANGED <<mvars, rvars, lvars, op, calls, config, local_channels, local_sent,
                       receivers, redis_handlers, invocations, events_published,
                       events_delivered, active_subscriptions, running, streams>>

\* publish, bus.rs 649-657: counts the event and returns Ok
RedisPublishCount(p) ==
    /\ pc[p] = "pub_count"
    /\ events_published' = fetch_add(events_published, 1)
    /\ pc' = [pc EXCEPT ![p] = "idle"]
    /\ ret' = [ret EXCEPT ![p] = Ok]
    /\ calls' = [calls EXCEPT !.publish_done = @ + 1,
                              !.returned = @ \cup {op[p].event.id}]
    /\ UNCHANGED <<mvars, rvars, lvars, op, config, local_channels, local_sent,
                   receivers, redis_handlers, invocations, events_delivered,
                   active_subscriptions, running, streams, listeners, commands>>

\* subscribe, bus.rs 660-674: under the write guard on local_channels, a
\* receiver on the channel of this pattern string, created if there is none
RedisSubscribeChannel(p, topic) ==
    LET chan == IF topic \in DOMAIN local_channels
                THEN local_channels[topic] ELSE Len(local_sent) + 1
    IN  /\ CanCall(p)
        /\ local_channels' = [t \in DOMAIN local_channels \cup {topic} |->
                                IF t = topic THEN chan ELSE local_channels[t]]
        /\ local_sent' = IF topic \in DOMAIN local_channels
                         THEN local_sent ELSE Append(local_sent, <<>>)
        /\ receivers' = Append(receivers,
                [id |-> Len(receivers) + 1,
                 topic |-> topic,
                 chan |-> chan,
                 next |-> receiver_start(local_sent'[chan]),
                 alive |-> TRUE,
                 last |-> [kind |-> "none"],
                 returned |-> FALSE,
                 since |-> 0])
        /\ op' = [op EXCEPT ![p] =
                    [name |-> "subscribe", topic |-> topic,
                     id |-> Len(receivers) + 1,
                     known |-> topic \in DOMAIN local_channels]]
        /\ calls' = [calls EXCEPT !.subscribe = @ + 1]
        /\ pc' = [pc EXCEPT ![p] = "sub_listener"]
        /\ ret' = [ret EXCEPT ![p] = Pending]
        /\ UNCHANGED <<mvars, rvars, lvars, config, redis_handlers, invocations,
                       events_published, events_delivered, active_subscriptions,
                       running, streams, listeners, commands>>

\* subscribe, bus.rs 676-685: starts a listener for the pattern (every call
\* does), counts the subscription and returns the handle; when the listener
\* cannot be started the error is returned and the receiver is dropped
RedisSubscribeListener(p, outcome) ==
    /\ pc[p] = "sub_listener"
    /\ IF outcome = "Ok"
       THEN /\ listeners' = with_listener(op[p].topic)
            /\ active_subscriptions' = fetch_add(active_subscriptions, 1)
            /\ receivers' = [receivers EXCEPT ![op[p].id].returned = TRUE,
                                              ![op[p].id].since = calls.publish]
            /\ ret' = [ret EXCEPT ![p] = OkSubscription(op[p].id)]
            /\ calls' = [calls EXCEPT !.subscribe_done = @ + 1]
       ELSE /\ receivers' = [receivers EXCEPT ![op[p].id].alive = FALSE]
            /\ ret' = [ret EXCEPT ![p] = Err(outcome)]
            /\ UNCHANGED <<listeners, active_subscriptions, calls>>
    /\ pc' = [pc EXCEPT ![p] = "idle"]
    /\ UNCHANGED <<mvars, rvars, lvars, op, config, local_channels, local_sent,
                   redis_handlers, invocations, events_published,
                   events_delivered, running, streams, commands>>

\* register_handler, bus.rs 688-694: pushes the handler
RedisRegisterPush(p, handler_topics) ==
    /\ CanCall(p)
    /\ redis_handlers' = Append(redis_handlers,
            [topics |-> handler_topics, returned |-> FALSE, since |-> 0])
    /\ op' = [op EXCEPT ![p] =
                [name |-> "register_handler", topics |-> handler_topics,
                 handler |-> Len(redis_handlers) + 1, k |-> 1]]
    /\ calls' = [calls EXCEPT !.register_handler = @ + 1]
    /\ pc' = [pc EXCEPT ![p] = "reg_listener"]
    /\ ret' = [ret EXCEPT ![p] = Pending]
    /\ UNCHANGED <<mvars, rvars, lvars, config, local_channels, local_sent, receivers,
                   invocations, events_published, events_delivered,
                   active_subscriptions, running, streams, listeners, commands>>

\* register_handler, bus.rs 696-701: starts a listener for the next of the
\* handler's topics; returns the error when that fails and Ok after the last
RedisRegisterListener(p, outcome) ==
    LET k == op[p].k
        last_topic == k = Len(op[p].topics)
    IN  /\ pc[p] = "reg_listener"
        /\ IF outcome = "Ok"
           THEN /\ listeners' = with_listener(op[p].topics[k])
                /\ op' = [op EXCEPT ![p].k = k + 1]
                /\ pc' = [pc EXCEPT ![p] =
                            IF last_topic THEN "idle" ELSE "reg_listener"]
                /\ ret' = [ret EXCEPT ![p] = IF last_topic THEN Ok ELSE Pending]
                /\ redis_handlers' =
                        IF last_topic
                        THEN [redis_handlers EXCEPT
                                ![op[p].handler].returned = TRUE,
                                ![op[p].handler].since = calls.publish]
                        ELSE redis_handlers
           ELSE /\ pc' = [pc EXCEPT ![p] = "idle"]
                /\ ret' = [ret EXCEPT ![p] = Err(outcome)]
                /\ UNCHANGED <<listeners, op, redis_handlers>>
        /\ UNCHANGED <<mvars, rvars, lvars, calls, config, local_channels, local_sent,
                       receivers, invocations, events_published,
                       events_delivered, active_subscriptions, running, streams,
                       commands>>

\* unsubscribe, bus.rs 704-707: fetch_sub(1) on the gauge, whatever the id
RedisUnsubscribe(p, subscription_id) ==
    /\ CanCall(p)
    /\ active_subscriptions' = fetch_sub(active_subscriptions, 1)
    /\ op' = [op EXCEPT ![p] = [name |-> "unsubscribe"]]
    /\ calls' = [calls EXCEPT !.unsubscribe = @ + 1]
    /\ ret' = [ret EXCEPT ![p] = Ok]
    /\ UNCHANGED <<mvars, rvars, lvars, pc, config, local_channels, local_sent,
                   receivers, redis_handlers, invocations, events_published,
                   events_delivered, running, streams, listeners, commands>>

\* stats, bus.rs 709-716
RedisStats(p) ==
    /\ CanCall(p)
    /\ op' = [op EXCEPT ![p] = [name |-> "stats"]]
    /\ calls' = [calls EXCEPT !.stats = @ + 1]
    /\ ret' = [ret EXCEPT ![p] = StatsValue(
                [events_published |-> events_published,
                 events_delivered |-> events_delivered,
                 active_subscriptions |-> active_subscriptions,
                 registered_handlers |-> Len(redis_handlers)])]
    /\ UNCHANGED <<mvars, rvars, lvars, pc, dvars>>

\* shutdown, bus.rs 635-637
RedisShutdown(p) ==
    /\ CanCall(p)
    /\ running' = FALSE
    /\ op' = [op EXCEPT ![p] = [name |-> "shutdown"]]
    /\ calls' = [calls EXCEPT !.shutdown = @ + 1]
    /\ ret' = [ret EXCEPT ![p] = Ok]
    /\ UNCHANGED <<mvars, rvars, lvars, pc, config, local_channels, local_sent,
                   receivers, redis_handlers, invocations, events_published,
                   events_delivered, active_subscriptions, streams, listeners,
                   commands>>

\* the caller drops a Subscription it was given, and with it the receiver
RedisDrop(s) ==
    /\ receivers[s].alive
    /\ receivers[s].returned
    /\ receivers' = [receivers EXCEPT ![s].alive = FALSE]
    /\ UNCHANGED <<mvars, rvars, bvars, config, local_channels, local_sent,
                   redis_handlers, invocations, events_published,
                   events_delivered, active_subscriptions, running, streams,
                   listeners, commands>>

\* listener task, bus.rs 526-530 and 568: no message within the second, and
\* the loop finds the running flag cleared
ListenerStop(l) ==
    /\ listeners[l].at = "await"
    /\ listeners[l].inbox = <<>>
    /\ ~running
    /\ listeners' = [listeners EXCEPT ![l].at = loop_test(running)]
    /\ UNCHANGED <<mvars, rvars, bvars, config, local_channels, local_sent, receivers,
                   redis_handlers, invocations, events_published,
                   events_delivered, active_subscriptions, running, streams,
                   commands>>

\* listener task, bus.rs 526-566: a message arrived while the task waited;
\* one that is no event is skipped, an event is sent into every local channel
\* whose pattern matches its topic and every handler with a matching topic is
\* invoked; then the loop tests the running flag
ListenerMessage(l) ==
    LET parsed == from_str(Head(listeners[l].inbox))
    IN  /\ listeners[l].at = "await"
        /\ listeners[l].inbox # <<>>
        /\ listeners' = [listeners EXCEPT
                            ![l].inbox = Tail(@),
                            ![l].handled = Append(@, IF parsed.ok THEN "event"
                                                                  ELSE "skipped"),
                            ![l].at = IF parsed.ok THEN loop_test(running)
                                                   ELSE skip_message(running)]
        /\ IF parsed.ok
           THEN /\ local_sent' = notify_local_channels(parsed.event)
                /\ invocations' = notify_redis_handlers(invocations, 1, parsed.event)
                /\ events_delivered' = count_delivered(events_delivered)
           ELSE UNCHANGED <<local_sent, invocations, events_delivered>>
        /\ UNCHANGED <<mvars, rvars, bvars, config, local_channels, receivers,
                       redis_handlers, events_published,
                       active_subscriptions, running, streams, commands>>

\* redis::Value, the two kinds replay_events looks for
Array(items) == [tag |-> "Array", items |-> items]

BulkString(data) == [tag |-> "BulkString", data |-> data]

\* the reply to XREAD as a Vec<redis::Value>, bus.rs 600-608: nothing when no
\* entry is above the cursor, else one element per stream, [key, entries],
\* every entry being [id, [field, value, ...]]
xread_reply(key, since, count) ==
    LET es == xread_entries(key, since, count)
    IN  IF es = <<>>
        THEN <<>>
        ELSE << Array(<< BulkString(text(key)),
                         Array([i \in 1..Len(es) |->
                            Array(<< BulkString(text(es[i].id)),
                                     Array([j \in 1..Len(es[i].fields) |->
                                        BulkString(es[i].fields[j])]) >>)]) >>) >>

RECURSIVE items_of_arrays(_)
\* one level of `for x in values { if let Value::Array(items) = x { for ..`:
\* the elements of the arrays among the values, in order
items_of_arrays(values) ==
    IF values = <<>>
    THEN <<>>
    ELSE (IF Head(values).tag = "Array" THEN Head(values).items ELSE <<>>)
            \o items_of_arrays(Tail(values))

RECURSIVE events_of_bulk_strings(_)
\* bus.rs 617-625: every bulk string among the values that parses as an event
events_of_bulk_strings(values) ==
    IF values = <<>>
    THEN <<>>
    ELSE (IF Head(values).tag = "BulkString" /\ from_str(Head(values).data).ok
          THEN <<from_str(Head(values).data).event>> ELSE <<>>)
            \o events_of_bulk_strings(Tail(values))

\* bus.rs 610-629: the three nested loops over the reply
parse_xread(result) ==
    events_of_bulk_strings(items_of_arrays(items_of_arrays(result)))

\* cursors and counts callers replay with
ReplayCursors == {0, 1}

ReplayCounts == {1, 2}

\* faulty variant of RedisReplay: the entries read are taken off the stream
RedisReplayConsuming(p, topic, since, count, ok) ==
    LET key == stream_key(topic)
        read == xread_entries(key, since, count)
    IN  /\ CanCall(p)
        /\ op' = [op EXCEPT ![p] =
                    [name |-> "replay_events", topic |-> topic, since |-> since,
                     count |-> count,
                     again |-> /\ op[p].name = "replay_events"
                               /\ op[p].topic = topic
                               /\ op[p].since = since
                               /\ op[p].count = count
                               /\ ret[p].kind = "Ok"]]
        /\ calls' = [calls EXCEPT !.replay_events = @ + 1]
        /\ ret' = [ret EXCEPT ![p] =
                    IF ~config.use_streams
                    THEN [kind |-> "Ok", events |-> <<>>]
                    ELSE IF ok
                    THEN [kind |-> "Ok",
                          events |-> parse_xread(xread_reply(key, since, count))]
                    ELSE Err("ConnectionError")]
        /\ (~config.use_streams) => ok
        /\ streams' = IF config.use_streams /\ ok /\ key \in DOMAIN streams
                      THEN [streams EXCEPT ![key].entries =
                                SelectSeq(@, LAMBDA e :
                                    \A i \in DOMAIN read : read[i] # e)]
                      ELSE streams
        /\ UNCHANGED <<mvars, rvars, lvars, pc, config, local_channels,
                       local_sent, receivers, redis_handlers, invocations,
                       events_published, events_delivered,
                       active_subscriptions, running, listeners, commands>>

\* replay_events, bus.rs 587-632: nothing without use_streams; else XREAD,
\* whose failure is returned as ConnectionError, and the parse of its reply
RedisReplay(p, topic, since, count, ok) ==
    /\ CanCall(p)
    /\ op' = [op EXCEPT ![p] =
                [name |-> "replay_events", topic |-> topic, since |-> since,
                 count |-> count,
                 again |-> /\ op[p].name = "replay_events"
                           /\ op[p].topic = topic
                           /\ op[p].since = since
                           /\ op[p].count = count
                           /\ ret[p].kind = "Ok"]]
    /\ calls' = [calls EXCEPT !.replay_events = @ + 1]
    /\ ret' = [ret EXCEPT ![p] =
                IF ~config.use_streams
                THEN [kind |-> "Ok", events |-> <<>>]
                ELSE IF ok
                THEN [kind |-> "Ok",
                      events |-> parse_xread(
                                    xread_reply(stream_key(topic), since, count))]
                ELSE Err("ConnectionError")]
    /\ (~config.use_streams) => ok
    /\ UNCHANGED <<mvars, rvars, lvars, pc, dvars>>

\* another client of the Redis server publishes, on a channel of the bus, a
\* message that is no event; the listeners subscribed to a matching pattern
\* get it (bus.rs 531-540, redis.rs 184-199 are where they read it)
ForeignPublish(channel) ==
    /\ TotalCalls < MaxCalls
    /\ listeners' = pubsub_deliver(channel, text("garbage"))
    /\ calls' = [calls EXCEPT !.foreign = @ + 1]
    /\ UNCHANGED <<mvars, rvars, lvars, pc, op, ret, config, local_channels,
                   local_sent, receivers, redis_handlers, invocations,
                   events_published, events_delivered, active_subscriptions,
                   running, streams, commands>>

\* the distributed bus at rest while another part runs
RedisIdle == RedisInit /\ config.use_streams

(***************************************************************************)
(* redis.rs RedisEventBus, redis.rs 32-317: one local channel, one         *)
(* listener.                                                               *)
(***************************************************************************)
\* RedisEventBus::new, redis.rs 74-94; the listener counts into a field
\* events_received of the statistics (204)
RelayInit ==
    /\ local_bus = <<>>
    /\ topic_handlers = <<>>
    /\ listener_handle = 0
    /\ redis_stats = [events_published |-> 0, events_delivered |-> 0,
                      active_subscriptions |-> 0, registered_handlers |-> 0,
                      events_received |-> 0]

\* redis.rs 245: format!("{}:{}", self.prefix, event.topic)
relay_channel(topic) == <<"relay", ":">> \o joined(split(topic), ".")

\* redis.rs 175: format!("{}:*", prefix)
relay_pattern == <<"relay", ":", "*">>

\* what publish can return, redis.rs 243-251: ConnectionError when no
\* connection can be had, PublishError when PUBLISH fails
RelayPublishOutcomes == {"Ok", "ConnectionError", "PublishError"}

\* receivers of local_bus that have not been dropped
bus_receiver_count ==
    Cardinality({s \in DOMAIN receivers : receivers[s].alive})

\* tx.send(event.clone()), redis.rs 208-210: stored unless there is no
\* receiver, in which case the error is logged
relay_send(sent, event) ==
    IF bus_receiver_count = 0 THEN sent ELSE Append(sent, event)

\* redis.rs 290-295: handlers.entry(topic).or_insert_with(Vec::new).push(h)
\* for the topics of the handler from its k-th on; the map is held as its
\* entries
RECURSIVE push_handler(_, _, _)
push_handler(entries, handler, k) ==
    IF k > Len(handler.topics)
    THEN entries
    ELSE LET topic == handler.topics[k]
             known == \E i \in DOMAIN entries : entries[i].topic = topic
         IN  push_handler(
                IF known
                THEN [i \in DOMAIN entries |->
                        IF entries[i].topic = topic
                        THEN [entries[i] EXCEPT !.list = Append(@, handler)]
                        ELSE entries[i]]
                ELSE Append(entries, [topic |-> topic, list |-> <<handler>>]),
                handler, k + 1)

\* redis.rs 214-224: one invocation for every handler of every list
RECURSIVE invoke_lists(_, _, _)
invoke_lists(ts, entries, event) ==
    IF entries = <<>>
    THEN ts
    ELSE invoke_lists(
            ts \o [i \in DOMAIN Head(entries).list |->
                    [handler |-> Head(entries).list[i], event |-> event]],
            Tail(entries), event)

\* publish, redis.rs 242-262
RelayPublish(p, topic, outcome) ==
    LET event == [id |-> calls.publish + 1, topic |-> topic]
    IN  /\ CanCall(p)
        /\ op' = [op EXCEPT ![p] = [name |-> "publish", event |-> event]]
        /\ ret' = [ret EXCEPT ![p] = IF outcome = "Ok" THEN Ok ELSE Err(outcome)]
        /\ IF outcome = "Ok"
           THEN /\ listeners' = pubsub_deliver(relay_channel(topic), to_string(event))
                /\ commands' = Append(commands,
                        [cmd |-> "PUBLISH", key |-> relay_channel(topic),
                         payload |-> to_string(event)])
                /\ redis_stats' = [redis_stats EXCEPT !.events_published = @ + 1]
                /\ calls' = [calls EXCEPT !.publish = @ + 1,
                                          !.before = Append(@, calls.returned),
                                          !.publish_done = @ + 1,
                                          !.returned = @ \cup {event.id}]
           ELSE /\ calls' = [calls EXCEPT !.publish = @ + 1,
                                          !.before = Append(@, calls.returned)]
                /\ UNCHANGED <<listeners, commands, redis_stats>>
        /\ UNCHANGED <<mvars, lvars, pc, dvars_bus_only, receivers, invocations,
                       local_bus, topic_handlers, listener_handle>>

\* subscribe, redis.rs 268-284: a receiver on local_bus; the pattern is only
\* stored in the handle
RelaySubscribe(p, topic) ==
    /\ CanCall(p)
    /\ receivers' = Append(receivers,
            [id |-> Len(receivers) + 1,
             topic |-> topic,
             chan |-> 1,
             next |-> receiver_start(local_bus),
             alive |-> TRUE,
             last |-> [kind |-> "none"],
             returned |-> TRUE,
             since |-> calls.publish])
    /\ redis_stats' = [redis_stats EXCEPT !.active_subscriptions = @ + 1]
    /\ op' = [op EXCEPT ![p] = [name |-> "subscribe", topic |-> topic,
                                 id |-> Len(receivers) + 1]]
    /\ calls' = [calls EXCEPT !.subscribe = @ + 1, !.subscribe_done = @ + 1]
    /\ ret' = [ret EXCEPT ![p] = OkSubscription(Len(receivers) + 1)]
    /\ UNCHANGED <<mvars, lvars, pc, dvars_bus_only, invocations, listeners,
                   commands, local_bus, topic_handlers, listener_handle>>

\* register_handler, redis.rs 287-298
RelayRegisterHandler(p, handler_topics) ==
    LET handler == [id |-> calls.register_handler + 1, topics |-> handler_topics]
    IN  /\ CanCall(p)
        /\ topic_handlers' = push_handler(topic_handlers, handler, 1)
        /\ op' = [op EXCEPT ![p] = [name |-> "register_handler",
                                     topics |-> handler_topics]]
        /\ calls' = [calls EXCEPT !.register_handler = @ + 1]
        /\ ret' = [ret EXCEPT ![p] = Ok]
        /\ UNCHANGED <<mvars, lvars, pc, dvars, local_bus, listener_handle,
                       redis_stats>>

\* unsubscribe, redis.rs 301-311
RelayUnsubscribe(p) ==
    /\ CanCall(p)
    /\ redis_stats' = [redis_stats EXCEPT !.active_subscriptions =
                            IF @ > 0 THEN @ - 1 ELSE @]
    /\ op' = [op EXCEPT ![p] = [name |-> "unsubscribe"]]
    /\ calls' = [calls EXCEPT !.unsubscribe = @ + 1]
    /\ ret' = [ret EXCEPT ![p] = Ok]
    /\ UNCHANGED <<mvars, lvars, pc, dvars, local_bus, topic_handlers,
                   listener_handle>>

\* stats, redis.rs 314-316
RelayStats(p) ==
    /\ CanCall(p)
    /\ op' = [op EXCEPT ![p] = [name |-> "stats"]]
    /\ calls' = [calls EXCEPT !.stats = @ + 1]
    /\ ret' = [ret EXCEPT ![p] = StatsValue(redis_stats)]
    /\ UNCHANGED <<mvars, lvars, pc, dvars, rvars>>

\* start_listener, redis.rs 116-139: spawns the listener task unless a handle
\* is held
StartListener(p) ==
    /\ CanCall(p)
    /\ IF listener_handle = 0
       THEN /\ listeners' = Append(listeners,
                    [pattern |-> relay_pattern, inbox |-> <<>>,
                     handled |-> <<>>, at |-> "connecting"])
            /\ listener_handle' = Len(listeners) + 1
       ELSE UNCHANGED <<listeners, listener_handle>>
    /\ op' = [op EXCEPT ![p] = [name |-> "start_listener"]]
    /\ calls' = [calls EXCEPT !.start_listener = @ + 1]
    /\ ret' = [ret EXCEPT ![p] = Ok]
    /\ UNCHANGED <<mvars, lvars, pc, dvars_bus_only, receivers, invocations,
                   commands, local_bus, topic_handlers, redis_stats>>

\* stop_listener, redis.rs 142-148: aborts the task whose handle is held
StopListener(p) ==
    /\ CanCall(p)
    /\ IF listener_handle # 0
       THEN /\ listeners' = [listeners EXCEPT ![listener_handle] =
                                [@ EXCEPT !.at = "stopped", !.inbox = <<>>]]
            /\ listener_handle' = 0
       ELSE UNCHANGED <<listeners, listener_handle>>
    /\ op' = [op EXCEPT ![p] = [name |-> "stop_listener"]]
    /\ calls' = [calls EXCEPT !.stop_listener = @ + 1]
    /\ ret' = [ret EXCEPT ![p] = Ok]
    /\ UNCHANGED <<mvars, lvars, pc, dvars_bus_only, receivers, invocations,
                   commands, local_bus, topic_handlers, redis_stats>>

\* redis_listener_loop, redis.rs 169-180: the task connects and subscribes to
\* every channel under the prefix; when either fails it ends with the error,
\* which is logged (131-133)
RelayListenerConnect(l, ok) ==
    /\ listeners[l].at = "connecting"
    /\ listeners' = [listeners EXCEPT ![l].at = IF ok THEN "await" ELSE "stopped"]
    /\ UNCHANGED <<mvars, bvars, dvars_bus_only, receivers, invocations,
                   commands, rvars>>

\* redis_listener_loop, redis.rs 182-225: a message arrived; one that is no
\* event is skipped; an event is counted, sent into local_bus and given to
\* every handler of every list
RelayListenerMessage(l) ==
    LET parsed == from_str(Head(listeners[l].inbox))
    IN  /\ listeners[l].at = "await"
        /\ listeners[l].inbox # <<>>
        /\ listeners' = [listeners EXCEPT
                            ![l].inbox = Tail(@),
                            ![l].handled = Append(@, IF parsed.ok THEN "event"
                                                                  ELSE "skipped")]
        /\ IF parsed.ok
           THEN /\ redis_stats' = [redis_stats EXCEPT !.events_received = @ + 1]
                /\ local_bus' = relay_send(local_bus, parsed.event)
                /\ invocations' = invoke_lists(invocations, topic_handlers,
                                               parsed.event)
           ELSE UNCHANGED <<redis_stats, local_bus, invocations>>
        /\ UNCHANGED <<mvars, bvars, dvars_bus_only, receivers, commands,
                       topic_handlers, listener_handle>>

\* position of the oldest value local_bus still holds
relay_oldest ==
    IF Len(local_bus) > channel_capacity
    THEN Len(local_bus) - channel_capacity
    ELSE 0

\* Subscription::recv on a receiver of local_bus, bus.rs 52-57
RelayRecv(s) ==
    LET sub == receivers[s]
    IN  /\ sub.alive
        /\ sub.next < Len(local_bus)
        /\ receivers' = [receivers EXCEPT ![s] =
                IF sub.next < relay_oldest
                THEN [sub EXCEPT !.next = relay_oldest, !.last = recv_lagged]
                ELSE [sub EXCEPT !.next = sub.next + 1,
                                 !.last = [kind |-> "Ok",
                                           value |-> local_bus[sub.next + 1]]]]
        /\ UNCHANGED <<mvars, bvars, dvars_bus_only, invocations, listeners,
                       commands, rvars>>

\* the caller drops a Subscription, and with it the receiver
RelayDrop(s) ==
    /\ receivers[s].alive
    /\ receivers' = [receivers EXCEPT ![s].alive = FALSE]
    /\ UNCHANGED <<mvars, bvars, dvars_bus_only, invocations, listeners,
                   commands, rvars>>

\* the matcher at rest while the bus runs
MatchIdle ==
    /\ m_pattern = EmptyString
    /\ m_topic = EmptyString
    /\ m_pc = "done"
    /\ m_result = TRUE

Init == BusInit /\ MatchIdle /\ RedisIdle /\ RelayInit

Next ==
    \/ \E p \in Procs, topic \in BusTopics : PublishStats(p, topic)
    \/ \E p \in Procs : PublishSubscribers(p)
    \/ \E p \in Procs : PublishHandlers(p)
    \/ \E p \in Procs, topic \in BusPatterns : SubscribeChannel(p, topic)
    \/ \E p \in Procs : SubscribeStats(p)
    \/ \E p \in Procs, h \in HandlerTopics : RegisterPush(p, h)
    \/ \E p \in Procs : RegisterStats(p)
    \/ \E p \in Procs, id \in 0..Len(subscriptions) : Unsubscribe(p, id)
    \/ \E p \in Procs : Stats(p)
    \/ \E s \in DOMAIN subscriptions : Recv(s)
    \/ \E s \in DOMAIN subscriptions : Drop(s)
    \/ \E i \in DOMAIN tasks : HandlerOk(i)
    \/ \E i \in DOMAIN tasks : HandlerErr(i)

Spec == Init /\ [][Next]_vars

\* a step of some task that is inside a call of the in-process bus
CallStep ==
    \E p \in Procs :
        \/ PublishSubscribers(p)
        \/ PublishHandlers(p)
        \/ SubscribeStats(p)
        \/ RegisterStats(p)

\* Spec with the scheduling of the calling tasks: the runtime runs a task
\* that is inside a call and can go on (its lock is free)
FairSpec == Spec /\ WF_pc(CallStep)

\* the bus at rest while the matcher is applied
MatchSpecInit == MatchInit /\ BusInit /\ RedisIdle /\ RelayInit

MatchNext == MatchCall

MatchSpec == MatchSpecInit /\ [][MatchNext]_vars

\* the distributed bus of bus.rs with its callers, its listeners and Redis
DistInit == BusInit /\ MatchIdle /\ RedisInit /\ RelayInit

DistNext ==
    \/ \E p \in DistProcs, topic \in BusTopics, ok \in BOOLEAN :
            RedisPublishStream(p, topic, ok)
    \/ \E p \in DistProcs, ok \in BOOLEAN : RedisPublishPubsub(p, ok)
    \/ \E p \in DistProcs : RedisPublishCount(p)
    \/ \E p \in DistProcs, topic \in DistPatterns : RedisSubscribeChannel(p, topic)
    \/ \E p \in DistProcs, outcome \in ListenerOutcomes :
            RedisSubscribeListener(p, outcome)
    \/ \E p \in DistProcs, h \in DistHandlerTopics : RedisRegisterPush(p, h)
    \/ \E p \in DistProcs, outcome \in ListenerOutcomes :
            RedisRegisterListener(p, outcome)
    \/ \E p \in DistProcs, id \in 0..Len(receivers) : RedisUnsubscribe(p, id)
    \/ \E p \in DistProcs : RedisStats(p)
    \/ \E p \in DistProcs : RedisShutdown(p)
    \/ \E p \in DistProcs, topic \in BusTopics, since \in ReplayCursors,
          count \in ReplayCounts, ok \in BOOLEAN :
            RedisReplay(p, topic, since, count, ok)
    \/ \E s \in DOMAIN receivers : RedisDrop(s)
    \/ \E l \in DOMAIN listeners : ListenerStop(l)
    \/ \E l \in DOMAIN listeners : ListenerMessage(l)
    \/ \E topic \in BusTopics : ForeignPublish(channel_key(topic))

DistSpec == DistInit /\ [][DistNext]_vars

\* a step of some listener task: its wait for a message ends, on a message or
\* on the timeout of one second (bus.rs 527-530)
ListenerStep ==
    \E l \in DOMAIN listeners : ListenerStop(l) \/ ListenerMessage(l)

\* DistSpec with the scheduling of the listener tasks: the runtime runs a
\* spawned task that can take a step, and the wait of a listener ends after
\* one second at the latest
DistFairSpec == DistSpec /\ WF_listeners(ListenerStep)

\* the distributed bus of redis.rs with its callers, its listener and Redis
RelaySpecInit == BusInit /\ MatchIdle /\ RedisIdle /\ RelayInit

RelayNext ==
    \/ \E p \in DistProcs, topic \in BusTopics, outcome \in RelayPublishOutcomes :
            RelayPublish(p, topic, outcome)
    \/ \E p \in DistProcs, topic \in DistPatterns : RelaySubscribe(p, topic)
    \/ \E p \in DistProcs, h \in DistHandlerTopics : RelayRegisterHandler(p, h)
    \/ \E p \in DistProcs : RelayUnsubscribe(p)
    \/ \E p \in DistProcs : RelayStats(p)
    \/ \E p \in DistProcs : StartListener(p)
    \/ \E p \in DistProcs : StopListener(p)
    \/ \E l \in DOMAIN listeners, ok \in BOOLEAN : RelayListenerConnect(l, ok)
    \/ \E l \in DOMAIN listeners : RelayListenerMessage(l)
    \/ \E s \in DOMAIN receivers : RelayRecv(s)
    \/ \E s \in DOMAIN receivers : RelayDrop(s)
    \/ \E topic \in BusTopics : ForeignPublish(relay_channel(topic))

RelaySpec == RelaySpecInit /\ [][RelayNext]_vars

(***************************************************************************)
(* Properties of the topic matcher (checked under MatchSpec).              *)
(***************************************************************************)
\* the reference semantics of patterns: a literal equals its topic segment,
\* `*` takes exactly one segment, `#` takes zero or more segments wherever it
\* stands
RECURSIVE Aligned(_, _)
Aligned(pattern_parts, topic_parts) ==
    IF pattern_parts = <<>>
    THEN topic_parts = <<>>
    ELSE IF Head(pattern_parts) = "#"
    THEN \E k \in 0..Len(topic_parts) :
            Aligned(Tail(pattern_parts),
                    SubSeq(topic_parts, k + 1, Len(topic_parts)))
    ELSE /\ topic_parts # <<>>
         /\ Head(pattern_parts) \in {"*", Head(topic_parts)}
         /\ Aligned(Tail(pattern_parts), Tail(topic_parts))

\* position by position: same number of segments, every non-`*` pattern
\* segment equal to the topic segment at its place
SamePositions(pattern_parts, topic_parts) ==
    /\ Len(pattern_parts) = Len(topic_parts)
    /\ \A i \in 1..Len(pattern_parts) :
            pattern_parts[i] \in {"*", topic_parts[i]}

\* the first n segments of the topic match the n pattern segments
LeadingMatch(prefix, topic_parts) ==
    /\ Len(topic_parts) >= Len(prefix)
    /\ SamePositions(prefix, SubSeq(topic_parts, 1, Len(prefix)))

HasHash(pattern_parts) == \E i \in 1..Len(pattern_parts) : pattern_parts[i] = "#"

Prefix(pattern_parts) == SubSeq(pattern_parts, 1, Len(pattern_parts) - 1)

\* C1: for every pattern and topic built from the segments, topic_matches is
\* true exactly when the pattern can be aligned with the topic under the
\* reference semantics (`#` taking zero or more segments anywhere).
C1_MatchesReference ==
    (m_pc = "done" /\ m_pattern # EmptyString /\ m_topic # EmptyString)
        => (m_result = Aligned(m_pattern, m_topic))

\* C2: for a pattern without `#`, topic_matches is true iff pattern and topic
\* have the same number of segments and every non-`*` pattern segment equals
\* the topic segment at the same position (so t matches t, a.*.b does not
\* match a four-segment topic, the empty pattern matches only the empty topic).
C2_NoHashPositional ==
    (m_pc = "done" /\ ~HasHash(m_pattern))
        => (m_result = SamePositions(m_pattern, m_topic))

\* C2 witness: a.*.b was applied to a.b.b.b and did not match, and a literal
\* topic is matched by itself in another run (the state is the first)
C2_Witness ==
    /\ m_pc = "done"
    /\ m_pattern = <<"a", "*", "b">>
    /\ m_topic = <<"a", "b", "b", "b">>
    /\ m_result = FALSE

\* C3: a pattern whose only `#` is its last segment matches every topic whose
\* leading segments match the segments before the `#`, whatever follows them
\* (nothing included); `#` alone matches every topic.
C3_TrailingHash ==
    (/\ m_pc = "done"
     /\ m_pattern[Len(m_pattern)] = "#"
     /\ ~HasHash(Prefix(m_pattern))
     /\ LeadingMatch(Prefix(m_pattern), m_topic))
        => (m_result = TRUE)

\* C3 witness: a.# was applied to the topic a, with no segment left for `#`
C3_Witness ==
    /\ m_pc = "done"
    /\ m_pattern = <<"a", "#">>
    /\ m_topic = <<"a">>
    /\ m_result = TRUE

(***************************************************************************)
(* Properties of the in-process bus (checked under Spec).                  *)
(***************************************************************************)
Max(a, b) == IF a > b THEN a ELSE b

\* tasks that are inside publish, past the point where the event is counted
InPublish == {p \in Procs : pc[p] \in {"pub_subscribers", "pub_handlers"}}

\* the receiver of subscription s has room: fewer unread values than capacity
NotFull(s) ==
    Len(channels[subscriptions[s].chan]) - subscriptions[s].next < channel_capacity

\* number of copies of event e that subscription s can still receive
Copies(s, e) ==
    LET sub == subscriptions[s]
        sent == channels[sub.chan]
    IN  Cardinality({i \in (Max(sub.next, oldest(sub.chan)) + 1)..Len(sent) :
                        sent[i] = e})

\* handler entry h has a topic pattern that matches the topic
HandlerMatches(h, topic) ==
    \E k \in 1..Len(handlers[h]) : topic_matches(handlers[h][k], topic)

\* C4: the fan-out of Publish(e) leaves, on every live subscription whose
\* channel is not full, exactly one receivable copy of e if the subscription's
\* pattern matches e.topic and none if it does not; no channel ever holds an
\* event that its subscriptions' pattern does not match.
C4_Delivery ==
    [][/\ \A p \in Procs :
            (pc[p] = "pub_subscribers" /\ pc'[p] = "pub_handlers") =>
                \A s \in DOMAIN subscriptions :
                    (subscriptions[s].alive /\ NotFull(s)) =>
                        Copies(s, op[p].event)' =
                            IF topic_matches(subscriptions[s].topic,
                                             op[p].event.topic)
                            THEN 1 ELSE 0
       /\ \A s \in DOMAIN subscriptions' :
            \A i \in 1..Len(channels'[subscriptions'[s].chan]) :
                topic_matches(subscriptions'[s].topic,
                              channels'[subscriptions'[s].chan][i].topic)
      ]_vars

\* C4 witness: a publish of an event on a.c has returned; the subscription on
\* a.* holds exactly that event, unread, and the one on a.b holds nothing
C4_Witness ==
    \E p \in Procs, s1, s2 \in DOMAIN subscriptions :
        /\ op[p].name = "publish" /\ pc[p] = "idle"
        /\ op[p].event.topic = <<"a", "c">>
        /\ subscriptions[s1].topic = <<"a", "*">>
        /\ subscriptions[s2].topic = <<"a", "b">>
        /\ subscriptions[s1].alive /\ subscriptions[s2].alive
        /\ subscriptions[s1].next = 0
        /\ channels[subscriptions[s1].chan] = <<op[p].event>>
        /\ channels[subscriptions[s2].chan] = <<>>

\* C5: events_published equals the number of publish calls that have counted
\* their event: the completed ones plus those still in progress; when no
\* publish is in progress it is the number N of completed publish calls.
C5_PublishedCount ==
    stats.events_published = calls.publish_done + Cardinality(InPublish)

\* C5 witness: two publish calls have completed on a bus without subscribers
\* and handlers, and the counter is 2
C5_Witness ==
    /\ calls.publish_done = 2
    /\ InPublish = {}
    /\ DOMAIN subscribers = {}
    /\ handlers = <<>>
    /\ stats.events_published = 2

\* C6: active_subscriptions is never negative; an unsubscribe that finds it 0
\* leaves it 0; the first unsubscribe after K >= 1 completed subscribe calls
\* leaves it K - 1.
C6_ActiveGauge ==
    [][/\ stats'.active_subscriptions >= 0
       /\ (calls'.unsubscribe = calls.unsubscribe + 1) =>
            /\ (stats.active_subscriptions = 0) =>
                    (stats'.active_subscriptions = 0)
            /\ (calls.unsubscribe = 0 /\ calls.subscribe_done >= 1) =>
                    (stats'.active_subscriptions = calls.subscribe_done - 1)
      ]_vars

\* C6 witness: two subscribe calls and one unsubscribe have completed and the
\* gauge is 1
C6_Witness ==
    /\ calls.subscribe_done = 2
    /\ calls.unsubscribe = 1
    /\ stats.active_subscriptions = 1

\* C7: an unsubscribe with an id that no subscribe returned, or with an id
\* that was passed to unsubscribe before, returns Ok and leaves the state of
\* the bus (active_subscriptions included) as it was.
C7_UnsubscribeNoOp ==
    [][\A p \in Procs :
        (/\ calls'.unsubscribe = calls.unsubscribe + 1
         /\ op'[p].name = "unsubscribe"
         /\ op'[p].seq = calls'.unsubscribe
         /\ \/ op'[p].id \notin 1..Len(subscriptions)
            \/ \E q \in Procs : /\ op[q].name = "unsubscribe"
                                 /\ op[q].id = op'[p].id)
        => (/\ ret'[p] = Ok
            /\ stats' = stats
            /\ subscribers' = subscribers
            /\ channels' = channels
            /\ subscriptions' = subscriptions
            /\ handlers' = handlers
            /\ tasks' = tasks)
      ]_vars

\* C8: the registry holds exactly one channel per distinct pattern string
\* passed to subscribe: its keys are those strings, different strings have
\* different channels, an entry once made is never replaced, and every reader
\* is on the channel registered for its own pattern string.
C8_OneChannelPerPattern ==
    [][/\ DOMAIN subscribers' =
            {subscriptions'[s].topic : s \in DOMAIN subscriptions'}
       /\ Len(channels') = Cardinality(DOMAIN subscribers')
       /\ \A t1, t2 \in DOMAIN subscribers' :
            (t1 # t2) => (subscribers'[t1] # subscribers'[t2])
       /\ \A t \in DOMAIN subscribers :
            t \in DOMAIN subscribers' /\ subscribers'[t] = subscribers[t]
       /\ \A s \in DOMAIN subscriptions' :
            subscriptions'[s].chan = subscribers'[subscriptions'[s].topic]
      ]_vars

\* C8 witness: two subscriptions on the same pattern string share a channel,
\* and a third, on a.# (which matches what a.* matches), has its own
C8_Witness ==
    \E s1, s2, s3 \in DOMAIN subscriptions :
        /\ s1 # s2
        /\ subscriptions[s1].topic = <<"a", "*">>
        /\ subscriptions[s2].topic = <<"a", "*">>
        /\ subscriptions[s3].topic = <<"a", "#">>
        /\ subscriptions[s1].chan = subscriptions[s2].chan
        /\ subscriptions[s3].chan # subscriptions[s1].chan
        /\ Cardinality(DOMAIN subscribers) = 2

\* C9: the handler part of Publish(e) spawns, for every registered handler,
\* exactly one invocation with e if one of its patterns matches e.topic and
\* none otherwise; nothing else spawns invocations.
C9_HandlerOnce ==
    [][/\ \A p \in Procs :
            (pc[p] = "pub_handlers" /\ pc'[p] = "idle") =>
                /\ SubSeq(tasks', 1, Len(tasks)) = tasks
                /\ \A i \in (Len(tasks) + 1)..Len(tasks') :
                        /\ tasks'[i].event = op[p].event
                        /\ tasks'[i].state = "running"
                /\ \A h \in 1..Len(handlers) :
                        Cardinality({i \in (Len(tasks) + 1)..Len(tasks') :
                                        tasks'[i].handler = h}) =
                            IF HandlerMatches(h, op[p].event.topic)
                            THEN 1 ELSE 0
       /\ (\A p \in Procs : ~(pc[p] = "pub_handlers" /\ pc'[p] = "idle")) =>
            (Len(tasks') = Len(tasks))
      ]_vars

\* C9 witness: the handler registered for a.* and a.b has exactly one
\* invocation after a publish on a.b returned
C9_Witness ==
    \E p \in Procs :
        /\ op[p].name = "publish" /\ pc[p] = "idle"
        /\ op[p].event.topic = <<"a", "b">>
        /\ handlers = << << <<"a", "*">>, <<"a", "b">> >> >>
        /\ Len(tasks) = 1
        /\ tasks[1].handler = 1
        /\ tasks[1].event = op[p].event

\* C10: every publish call that has returned returned Ok, and a publish in
\* progress never waits on a consumer: its fan-out step can always be taken,
\* and its handler step can be taken unless a register_handler call holds the
\* handler list, which then can itself complete.
C10_PublishOk ==
    \A p \in Procs :
        /\ (op[p].name = "publish" /\ pc[p] = "idle") => (ret[p] = Ok)
        /\ (pc[p] = "pub_subscribers") => ENABLED PublishSubscribers(p)
        /\ (pc[p] = "pub_handlers") =>
                \/ ENABLED PublishHandlers(p)
                \/ /\ handlers_writer \in Procs
                   /\ ENABLED RegisterStats(handlers_writer)

\* C10 witness: a publish has returned Ok although a matching channel holds
\* more unread values than its capacity for a live subscription
C10_Witness ==
    \E p \in Procs, s \in DOMAIN subscriptions :
        /\ op[p].name = "publish" /\ pc[p] = "idle" /\ ret[p] = Ok
        /\ subscriptions[s].alive
        /\ topic_matches(subscriptions[s].topic, op[p].event.topic)
        /\ Len(channels[subscriptions[s].chan]) - subscriptions[s].next
                > channel_capacity
        /\ op[p].event = channels[subscriptions[s].chan]
                                  [Len(channels[subscriptions[s].chan])]

\* the values of a channel are in an order that agrees with the order of the
\* publish calls that did not overlap: no value lies behind one whose publish
\* call began after its own had returned
InPublishOrder(sent) ==
    \A i, j \in 1..Len(sent) :
        i < j => sent[j].id \notin calls.before[sent[i].id]

SpawnedFor(ts, n, h) ==
    Cardinality({i \in n..Len(ts) : ts[i].handler = h})

\* C12 as stated: a publish delivers to the subscribers and handlers that were
\* registered when the call began: at its fan-out step a live subscription
\* with room gets the event iff its pattern matches and it was made before
\* the call began, and at its handler step a handler is invoked iff one of
\* its patterns matches and it was registered before the call began.
C12_SnapshotAtCall ==
    [][/\ \A p \in Procs :
            (pc[p] = "pub_subscribers" /\ pc'[p] = "pub_handlers") =>
                \A s \in DOMAIN subscriptions :
                    (subscriptions[s].alive /\ NotFull(s)) =>
                        Copies(s, op[p].event)' =
                            IF /\ topic_matches(subscriptions[s].topic,
                                                op[p].event.topic)
                               /\ calls.sub_born[s] < op[p].event.id
                            THEN 1 ELSE 0
       /\ \A p \in Procs :
            (pc[p] = "pub_handlers" /\ pc'[p] = "idle") =>
                \A h \in 1..Len(handlers) :
                    SpawnedFor(tasks', Len(tasks) + 1, h) =
                        IF /\ HandlerMatches(h, op[p].event.topic)
                           /\ calls.handler_born[h] < op[p].event.id
                        THEN 1 ELSE 0
      ]_vars

\* C12 amended: a publish delivers to the subscribers that are in the registry
\* when it takes the read guard on it and to the handlers that are in the
\* list when it takes the read guard on that, both after it has counted the
\* event. Its fan-out step gives the event to every matching live
\* subscription with room, made before or after the call began; its handler
\* step invokes every matching handler in the list, registered before or
\* after the call began; a subscription made later starts with nothing to
\* receive, and registering a handler invokes nothing.
C12_SnapshotAtGuard ==
    [][/\ \A p \in Procs :
            (pc[p] = "pub_subscribers" /\ pc'[p] = "pub_handlers") =>
                \A s \in DOMAIN subscriptions :
                    (/\ subscriptions[s].alive
                     /\ NotFull(s)
                     /\ topic_matches(subscriptions[s].topic, op[p].event.topic))
                        => Copies(s, op[p].event)' = 1
       /\ \A p \in Procs :
            (pc[p] = "pub_handlers" /\ pc'[p] = "idle") =>
                \A h \in 1..Len(handlers) :
                    HandlerMatches(h, op[p].event.topic) =>
                        SpawnedFor(tasks', Len(tasks) + 1, h) = 1
       /\ \A s \in DOMAIN subscriptions' \ DOMAIN subscriptions :
            \A c \in DOMAIN channels' : \A i \in 1..Len(channels'[c]) :
                Copies(s, channels[c][i])' = 0
       /\ (Len(handlers') > Len(handlers)) => tasks' = tasks
      ]_vars

\* C12 witness: a subscription has received an event whose publish call began
\* before the subscription was made
C12_Witness ==
    \E s \in DOMAIN subscriptions :
        /\ subscriptions[s].last.kind = "Ok"
        /\ subscriptions[s].last.value.id <= calls.sub_born[s]

\* C13: a handler invocation that returns an error is isolated. The step on
\* which it fails changes nothing but that invocation: no call's result or
\* position, no channel, no subscription, no counter, no other invocation,
\* and no new invocation (no retry); the handler stays registered. Every
\* publish returns Ok whatever its handlers did, and the handler step of a
\* later matching publish invokes a handler again even though an earlier
\* invocation of it failed.
C13_HandlerErrorIsolated ==
    [][/\ \A i \in DOMAIN tasks :
            (tasks[i].state = "running" /\ tasks'[i].state = "err") =>
                /\ tasks' = [tasks EXCEPT ![i].state = "err"]
                /\ handlers' = handlers
                /\ channels' = channels
                /\ subscriptions' = subscriptions
                /\ subscribers' = subscribers
                /\ stats' = stats
                /\ pc' = pc
                /\ ret' = ret
       /\ \A p \in Procs :
            (pc[p] = "pub_handlers" /\ pc'[p] = "idle") =>
                /\ ret'[p] = Ok
                /\ \A h \in 1..Len(handlers) :
                        (/\ HandlerMatches(h, op[p].event.topic)
                         /\ \E i \in DOMAIN tasks :
                                tasks[i].handler = h /\ tasks[i].state = "err")
                            => SpawnedFor(tasks', Len(tasks) + 1, h) = 1
      ]_vars

\* C13 witness: an invocation of a handler has failed, the publish that
\* scheduled it returned Ok, and a later publish has invoked the same handler
\* with its own event
C13_Witness ==
    \E i, j \in DOMAIN tasks : \E p \in Procs :
        /\ tasks[i].state = "err"
        /\ tasks[j].handler = tasks[i].handler
        /\ tasks[j].event.id > tasks[i].event.id
        /\ op[p].name = "publish" /\ pc[p] = "idle" /\ ret[p] = Ok
        /\ handlers # <<>>

\* the channel of subscription s has been torn down: the registry no longer
\* holds its sender
TornDown(s) == subscriptions[s].topic \notin DOMAIN subscribers

\* C14 as stated: a subscriber that fell behind only misses events; its recv
\* returns ChannelClosed only when the channel has been torn down, never
\* because the reader lagged.
C14_ClosedOnlyWhenTornDown ==
    \A s \in DOMAIN subscriptions :
        (subscriptions[s].last = Err("ChannelClosed"))
            => TornDown(s)

(***************************************************************************)
(* Properties of redis_bus::RedisEventBus (checked under DistSpec).        *)
(***************************************************************************)
\* C15 as stated: the gauge of the distributed bus has a floor of 0: it is
\* max(0, subscribes - unsubscribes), counting the subscribe calls that
\* returned a handle, and never wraps.
C15_GaugeFloor ==
    active_subscriptions = Max(0, calls.subscribe_done - calls.unsubscribe)

\* number of times Redis executed the write command with this key and payload
Executed(cmd, key, payload) ==
    Cardinality({i \in DOMAIN commands :
                    commands[i] = [cmd |-> cmd, key |-> key, payload |-> payload]})

\* number of entries of the stream that carry the payload
Entries(stream, payload) ==
    Cardinality({i \in DOMAIN stream.entries :
                    stream.entries[i].fields[2] = payload})

\* C16: a publish on the distributed bus that returns Ok has, with streams
\* enabled, appended the serialized event exactly once to the stream of its
\* topic (and without streams not at all), has published it exactly once on
\* the channel of its topic and nowhere else, and has incremented
\* events_published by exactly 1; events_published always equals the number
\* of publish calls that returned Ok.
C16_PublishedOnce ==
    [][/\ \A p \in DistProcs :
            (pc[p] = "pub_count" /\ pc'[p] = "idle") =>
                LET event == op[p].event
                    payload == to_string(event)
                IN  /\ ret'[p] = Ok
                    /\ Executed("XADD", stream_key(event.topic), payload) =
                            IF config.use_streams THEN 1 ELSE 0
                    /\ Executed("PUBLISH", channel_key(event.topic), payload) = 1
                    /\ Cardinality({i \in DOMAIN commands :
                                        commands[i].payload = payload}) =
                            IF config.use_streams THEN 2 ELSE 1
                    /\ events_published' = events_published + 1
       /\ \A p \in DistProcs :
            (pc[p] = "idle" /\ pc'[p] = "pub_pubsub" /\ config.use_streams) =>
                LET key == stream_key(op'[p].event.topic)
                    stream == streams'[key]
                IN  /\ stream.entries[Len(stream.entries)].fields[2] =
                            to_string(op'[p].event)
                    /\ Entries(stream, to_string(op'[p].event)) = 1
                    /\ Len(stream.entries) <= Len(stream_of(key).entries) + 1
       /\ events_published' = calls'.publish_done
      ]_vars

\* C16 witness: with streams enabled two publishes on one topic have returned
\* Ok, the stream of the topic holds both events and events_published is 2
C16_Witness ==
    /\ config.use_streams
    /\ calls.publish_done = 2
    /\ events_published = 2
    /\ stream_key(<<"a", "b">>) \in DOMAIN streams
    /\ Len(streams[stream_key(<<"a", "b">>)].entries) = 2
    /\ \A p \in DistProcs : pc[p] = "idle"

\* the step on which a publish call of p ends because Redis failed: the XADD
\* of a call that just began, or the PUBLISH
PublishFails(p) ==
    \/ pc[p] = "idle" /\ pc'[p] = "idle" /\ calls'.publish = calls.publish + 1
    \/ pc[p] = "pub_pubsub" /\ pc'[p] = "idle"

Broadcast ==
    {from_str(commands[i].payload).event :
        i \in {j \in DOMAIN commands : commands[j].cmd = "PUBLISH"}}

\* the listeners run and have handled every message they were sent
Quiet ==
    /\ running
    /\ \A l \in DOMAIN listeners : listeners[l].inbox = <<>>

\* number of times the event was sent into local channel c
SentInto(c, event) ==
    Cardinality({i \in DOMAIN local_sent[c] : local_sent[c][i] = event})

\* number of invocations of handler h with the event
InvokedWith(h, event) ==
    Cardinality({i \in DOMAIN invocations :
                    invocations[i] = [handler |-> h, event |-> event]})

\* C19 as stated: for subscribe and register_handler calls that returned
\* before Publish(e) was called, once the listeners have handled their
\* messages e has been sent exactly once into the local channel of every
\* subscription (still held) whose pattern matches e.topic and not into the
\* others, and every handler with a matching pattern has been invoked with e
\* exactly once, however many listeners were started.
C19_ExactlyOnce ==
    Quiet =>
        \A event \in Broadcast :
            /\ \A s \in DOMAIN receivers :
                    (/\ receivers[s].returned
                     /\ receivers[s].alive
                     /\ receivers[s].since < event.id)
                        => SentInto(receivers[s].chan, event) =
                                IF topic_matches(receivers[s].topic, event.topic)
                                THEN 1 ELSE 0
            /\ \A h \in DOMAIN redis_handlers :
                    (/\ redis_handlers[h].returned
                     /\ redis_handlers[h].since < event.id)
                        => InvokedWith(h, event) =
                                IF \E k \in DOMAIN redis_handlers[h].topics :
                                      topic_matches(redis_handlers[h].topics[k],
                                                    event.topic)
                                THEN 1 ELSE 0

\* the events of the entries of the topic's stream with an id above the
\* cursor, in append order, limited to the first count
AfterCursor(topic, since, count) ==
    LET entries == stream_of(stream_key(topic)).entries
        later == SelectSeq(entries, LAMBDA e : e.id > since)
        n == IF count < Len(later) THEN count ELSE Len(later)
    IN  [i \in 1..n |-> from_str(later[i].fields[2]).event]

\* C20 as stated: with streams enabled a replay that returns Ok returns the
\* events of the topic's log that lie strictly after the cursor, in append
\* order, min(maxCount, number of such entries) of them, each once.
C20_ReplayAfterCursor ==
    [][\A p \in DistProcs :
            (/\ calls'.replay_events = calls.replay_events + 1
             /\ config.use_streams
             /\ ret'[p].kind = "Ok")
                => ret'[p].events =
                        AfterCursor(op'[p].topic, op'[p].since, op'[p].count)
      ]_vars

(***************************************************************************)
(* Properties of redis.rs RedisEventBus (checked under RelaySpec).         *)
(***************************************************************************)
\* C18 as stated: the listener of redis.rs routes every incoming event
\* through the topic matcher: a Subscription receives an event only if its
\* pattern matches the event's topic, and a handler is invoked with an event
\* only if one of its topics() matches, and then once.
C18_RoutedThroughMatcher ==
    /\ \A s \in DOMAIN receivers :
            (receivers[s].last.kind = "Ok") =>
                topic_matches(receivers[s].topic, receivers[s].last.value.topic)
    /\ \A i \in DOMAIN invocations :
            \E k \in DOMAIN invocations[i].handler.topics :
                topic_matches(invocations[i].handler.topics[k],
                              invocations[i].event.topic)
    /\ \A i, j \in DOMAIN invocations :
            (i # j) => (invocations[i] # invocations[j])

\* C21: a replay changes no state of the bus or of Redis: the streams (append
\* logs), the commands executed, the three counters, the stop flag, the
\* channel registry, the contents of every local channel, the receivers, the
\* handlers, their invocations and the listeners are the same after the call
\* as before; and a replay that follows a replay with the same topic, cursor
\* and count, with no publish between them, returns the same sequence of
\* events when both return Ok.
C21_ReplayChangesNothing ==
    [][\A p \in DistProcs :
            (calls'.replay_events = calls.replay_events + 1) =>
                /\ streams' = streams
                /\ commands' = commands
                /\ events_published' = events_published
                /\ events_delivered' = events_delivered
                /\ active_subscriptions' = active_subscriptions
                /\ running' = running
                /\ local_channels' = local_channels
                /\ local_sent' = local_sent
                /\ receivers' = receivers
                /\ redis_handlers' = redis_handlers
                /\ invocations' = invocations
                /\ listeners' = listeners
                /\ (op'[p].again /\ ret'[p].kind = "Ok") =>
                        ret'[p].events = ret[p].events
      ]_vars

\* C21 witness: with streams enabled, a replay has returned Ok right after a
\* replay with the same arguments that returned Ok, on a topic whose stream
\* holds an entry after the cursor
C21_Witness ==
    \E p \in DistProcs :
        /\ config.use_streams
        /\ op[p].name = "replay_events"
        /\ op[p].again
        /\ ret[p].kind = "Ok"
        /\ \E i \in DOMAIN stream_of(stream_key(op[p].topic)).entries :
                stream_of(stream_key(op[p].topic)).entries[i].id > op[p].since

\* every listener task has left its loop
AllStopped == \A l \in DOMAIN listeners : listeners[l].at = "stopped"

\* C22: after shutdown every listener loop eventually exits. Once the stop
\* flag is cleared, eventually no listener is in its loop; a listener that
\* ends an iteration (on a message or on the timeout) with the flag cleared
\* leaves the loop, so it handles at most the one message of that iteration;
\* and a listener that has left the loop takes no message any more.
C22_ListenersExit ==
    /\ (~running) ~> AllStopped
    /\ [][\A l \in DOMAIN listeners :
            /\ (listeners[l].at = "stopped") => listeners'[l] = listeners[l]
            /\ (~running /\ listeners'[l].handled # listeners[l].handled) =>
                    /\ listeners'[l].at = "stopped"
                    /\ Len(listeners'[l].handled) = Len(listeners[l].handled) + 1
         ]_vars

\* C22 witness: shutdown was called on a bus with two listeners, one of which
\* had handled a message in its loop, and both have left their loops
C22_Witness ==
    /\ ~running
    /\ AllStopped
    /\ Len(listeners) = 2
    /\ \E l \in DOMAIN listeners : listeners[l].handled # <<>>

\* the listener is the one of redis.rs
IsRelay(l) == listeners[l].pattern = relay_pattern

\* listener l takes the message at the head of its inbox on this step
Takes(l) ==
    /\ listeners[l].inbox # <<>>
    /\ Len(listeners'[l].handled) = Len(listeners[l].handled) + 1

\* C23: a message that is no event is skipped and does not end the listener.
\* On the step on which a listener takes such a message nothing is sent into
\* a local channel, no handler is invoked, no receiver changes, and the
\* listener goes on waiting (unless shutdown has cleared the running flag).
\* A listener that has skipped a message and then takes an event hands it on:
\* in bus.rs into every local channel with a receiver whose pattern matches
\* and to every handler with a matching topic, in redis.rs into local_bus
\* (when it has a receiver) and to every handler.
C23_BadMessageSkipped ==
    [][\A l \in DOMAIN listeners :
        Takes(l) =>
            LET parsed == from_str(Head(listeners[l].inbox))
                skipped == \E i \in DOMAIN listeners[l].handled :
                                listeners[l].handled[i] = "skipped"
            IN  IF ~parsed.ok
                THEN /\ running => listeners'[l].at = "await"
                     /\ local_sent' = local_sent
                     /\ local_bus' = local_bus
                     /\ invocations' = invocations
                     /\ receivers' = receivers
                ELSE skipped =>
                     IF IsRelay(l)
                     THEN /\ (bus_receiver_count > 0) =>
                                local_bus' = Append(local_bus, parsed.event)
                          /\ \A e \in DOMAIN topic_handlers :
                             \A k \in DOMAIN topic_handlers[e].list :
                                \E i \in (Len(invocations) + 1)..Len(invocations') :
                                    invocations'[i] =
                                        [handler |-> topic_handlers[e].list[k],
                                         event |-> parsed.event]
                     ELSE /\ \A s \in DOMAIN receivers :
                                (/\ receivers[s].alive
                                 /\ topic_matches(receivers[s].topic,
                                                  parsed.event.topic)) =>
                                    local_sent'[receivers[s].chan] =
                                        Append(local_sent[receivers[s].chan],
                                               parsed.event)
                          /\ \A h \in DOMAIN redis_handlers :
                                (\E k \in DOMAIN redis_handlers[h].topics :
                                    topic_matches(redis_handlers[h].topics[k],
                                                  parsed.event.topic)) =>
                                    \E i \in (Len(invocations) + 1)..Len(invocations') :
                                        invocations'[i] =
                                            [handler |-> h, event |-> parsed.event]
      ]_vars

\* C23 witness: a listener of bus.rs has skipped a message that was no event
\* and has then taken an event, which a live subscription's channel holds,
\* and it is still waiting for messages
C23_Witness ==
    \E l \in DOMAIN listeners, s \in DOMAIN receivers :
        /\ listeners[l].handled = <<"skipped", "event">>
        /\ listeners[l].at = "await"
        /\ receivers[s].alive
        /\ local_sent[receivers[s].chan] # <<>>

(***************************************************************************)
(* Properties of the pattern conversion of bus.rs (checked under           *)
(* MatchSpec).                                                             *)
(***************************************************************************)
\* C24 as stated: whenever topic_matches accepts a topic for a pattern, the
\* pattern the listener gives to PSUBSCRIBE (the channel key of the pattern
\* with `*` made `[^:]*` and `#` made `*`) matches the channel key of the
\* topic, so the listener gets every event its subscriber's pattern matches.
C24_TransportAcceptsMatches ==
    (m_pc = "done" /\ m_result) =>
        stringmatch(redis_pattern(m_pattern), channel_key(m_topic))

(***************************************************************************)
(* Locking of the in-process bus (checked under FairSpec).                 *)
(***************************************************************************)
\* a task inside a call can take its next step, or waits for the handler
\* list while the task that holds it can take its own
CanGoOn(p) ==
    CASE pc[p] = "pub_subscribers" -> ENABLED PublishSubscribers(p)
      [] pc[p] = "pub_handlers" ->
            \/ ENABLED PublishHandlers(p)
            \/ /\ handlers_writer \in Procs
               /\ ENABLED RegisterStats(handlers_writer)
      [] pc[p] = "sub_stats" -> ENABLED SubscribeStats(p)
      [] pc[p] = "reg_stats" -> ENABLED RegisterStats(p)
      [] OTHER -> TRUE

\* C25: the in-process bus is deadlock-free. Under every interleaving of
\* publish, subscribe, register_handler, unsubscribe and stats calls of the
\* tasks, a call that has begun returns; the read guards on the subscriber
\* registry and the write guard on the handler list are given back, so that
\* a call waiting for one of them gets it; and in no state does a task wait
\* for a lock whose holder cannot go on. ("Whenever not idle, idle later" is
\* written in its equivalent form "always eventually idle".)
C25_DeadlockFree ==
    /\ \A p \in Procs : []<>(pc[p] = "idle")
    /\ []<>(subs_readers = {})
    /\ []<>(handlers_writer = 0)
    /\ [](\A p \in Procs : CanGoOn(p))

\* C25 witness: a publish holds its read guard on the subscriber registry
\* and waits for the handler list, which a register_handler call holds
\* while it has yet to take the statistics lock
C25_Witness ==
    \E p, q \in Procs :
        /\ pc[p] = "pub_handlers"
        /\ p \in subs_readers
        /\ pc[q] = "reg_stats"
        /\ handlers_writer = q

C28_AllOrNothing ==
    \A p \in DistProcs :
        (op[p].name = "publish" /\ pc[p] = "idle" /\ ret[p].kind = "Err") =>
            /\ Entries(stream_of(stream_key(op[p].event.topic)),
                       to_string(op[p].event)) = 0
            /\ Executed("PUBLISH", channel_key(op[p].event.topic),
                        to_string(op[p].event)) = 0
            /\ events_published = calls.publish_done

\* C29 as stated: a subscribe on the distributed bus that returns an error
\* (its listener could not connect or could not subscribe) leaves the bus as
\* it was: active_subscriptions is not incremented, no listener was started,
\* and local_channels has no entry for a pattern that had none when the call
\* began.
C29_FailedSubscribeLeavesNothing ==
    [][\A p \in DistProcs :
            (pc[p] = "sub_listener" /\ pc'[p] = "idle" /\ ret'[p].kind = "Err") =>
                /\ active_subscriptions' = active_subscriptions
                /\ listeners' = listeners
                /\ (~op[p].known) => op[p].topic \notin DOMAIN local_channels'
      ]_vars

\* C30: shutdown is permanent. No step sets the running flag again once it
\* is cleared; a listener started after that (by subscribe or
\* register_handler) has left its loop at once, with no message taken and
\* none waiting, and a listener that has left its loop takes none later; and
\* once the flag is cleared and every listener has left its loop, no step
\* sends into a local channel or invokes a handler, while a publish whose
\* writes succeed still returns Ok and counts its event, and a subscribe
\* whose listener setup succeeds still returns its handle.
C30_ShutdownPermanent ==
    [][/\ (~running) => ~running'
       /\ \A l \in DOMAIN listeners' \ DOMAIN listeners :
            (~running) => /\ listeners'[l].at = "stopped"
                          /\ listeners'[l].inbox = <<>>
                          /\ listeners'[l].handled = <<>>
       /\ \A l \in DOMAIN listeners :
            (listeners[l].at = "stopped") => listeners'[l] = listeners[l]
       /\ (~running /\ AllStopped) =>
            /\ \A c \in DOMAIN local_sent : local_sent'[c] = local_sent[c]
            /\ invocations' = invocations
            /\ AllStopped'
       /\ \A p \in DistProcs :
            /\ (~running /\ pc[p] = "pub_count" /\ pc'[p] = "idle") =>
                    /\ ret'[p] = Ok
                    /\ events_published' = fetch_add(events_published, 1)
            /\ (~running /\ pc[p] = "sub_listener"
                    /\ Len(listeners') > Len(listeners)) =>
                    ret'[p] = OkSubscription(op[p].id)
      ]_vars

\* C30 witness: after shutdown a subscription was returned whose listener
\* has left its loop without a message, and a publish of an event that its
\* pattern matches, called after the subscribe returned, has returned Ok;
\* the channel of the subscription holds nothing
C30_Witness ==
    \E p \in DistProcs, s \in DOMAIN receivers :
        /\ ~running
        /\ calls.shutdown = 1
        /\ AllStopped
        /\ \A l \in DOMAIN listeners : listeners[l].handled = <<>>
        /\ receivers[s].returned /\ receivers[s].alive
        /\ op[p].name = "publish" /\ pc[p] = "idle" /\ ret[p] = Ok
        /\ op[p].event.id > receivers[s].since
        /\ topic_matches(receivers[s].topic, op[p].event.topic)
        /\ local_sent[receivers[s].chan] = <<>>

=============================================================================
